---- MODULE Spec2Model ----
(***************************************************************************)
(* Route computation and multi-modal optimisation engine of the            *)
(* perishables path-finder: RoutingService (calculateRoute, optimizeRoute) *)
(* and the TransportOptimizer component (optimizeTransportModes).          *)
(*                                                                         *)
(* Number representation.  The program computes in IEEE doubles; the model *)
(* computes in exact integers:                                             *)
(*   - distances are whole metres;                                         *)
(*   - durations are whole ticks of 1/TicksPerSecond second, a unit in     *)
(*     which (metres / 1000) / maxSpeed * 3600 is a whole number for every *)
(*     registered maxSpeed;                                                *)
(*   - costs are whole currency units (the program rounds them);           *)
(*   - Math.round(n / d) is RoundDiv(n, d), round-half-up.                 *)
(* Points lie on a small grid near latitude 0, one grid unit being         *)
(* MetresPerGridUnit metres of arc; there the haversine formula reduces to *)
(* R * sqrt(dLat^2 + dLng^2), which the model floors to whole metres.      *)
(***************************************************************************)
EXTENDS Integers, Sequences, FiniteSets, TLC

VARIABLES
    \* RoutingService.calculateRoute: one call in flight at a time
    rPc,            \* "idle" | "fetching" | "settled"
    rArgs,          \* [start, end, transportMode, profile] of the call
    rResponse,      \* what the routing backend answered
    rOutcome,       \* how the call ended: status "returned" (with value) or "raised"
    \* RoutingService.optimizeRoute
    tPc,            \* "idle" | "loop" | "done"
    tPoints,        \* points argument
    tMode,          \* transportMode argument
    unvisited,      \* local: indices not yet visited (0-based, as in the code)
    current,        \* local: index of the current point
    order,          \* local: visiting order built so far
    totalDistance,  \* local: metres
    totalDuration,  \* local: ticks
    tIter,          \* number of while-loop iterations executed by the call
    tResult,        \* the resolved value of the call
    tPrev,          \* the resolved value of the previous call with the same arguments
    \* TransportOptimizer component
    nodes,          \* prop: the network's nodes
    edges,          \* prop: the network's edges
    optimizationMode,   \* state: the objective
    isOptimizing,   \* state
    optimization,   \* state: the OptimizationResult, or null
    oPc,            \* position of optimizeTransportModes:
                    \*   "idle" | "edge" | "evaluating" | "scored"
    edgeIndex,      \* position of the for loop over edges (1-based)
    pending,        \* modes whose route evaluation has not settled yet
    routeOptions,   \* settled evaluations of the current edge, by mode
    bestOption,     \* the option selected for the current edge
    emitted,        \* whether the current iteration pushed a recommendation
    recommendations,        \* local
    totalCostSavings,       \* local
    totalTimeSavings,       \* local: ticks
    totalDistanceSavings,   \* local: metres
    emittedFor,     \* history: the edge (position in edges) each recommendation
                    \* of the run was emitted for
    \* TransportOptimizer.applyOptimization
    optimizedEdges, \* local: the copy of edges being updated
    recIndex,       \* position of the for loop over recommendations (1-based)
    applied,        \* the list handed to onOptimizationApplied (empty before)
    \* GeocodingService
    cache,          \* Map: cache key -> filtered results
    reverseCache,   \* Map: cache key -> reverse result
    calls,          \* the calls made so far, in the order they started
    \* GeocodingService.parseInput
    input,          \* the text argument
    parsed,         \* the returned classification
    \* the session the optimizer runs in
    provider,       \* the answer of the routing backend for each mode, when the
                    \* backend answers the same request the same way (else <<>>)
    generation,     \* how many times the parent has taken over the edges
                    \* handed to onOptimizationApplied
    \* MapContainer
    isAddingNode,   \* state: add-node mode is armed
    addedNodes,     \* the nodes handed to onAddNode, in order
    armings         \* history: how many times add-node mode was armed

routeVars == <<rPc, rArgs, rResponse, rOutcome>>
tourVars == <<tPc, tPoints, tMode, unvisited, current, order, totalDistance,
              totalDuration, tIter, tResult, tPrev>>
optVars == <<nodes, edges, optimizationMode, isOptimizing, optimization, oPc,
             edgeIndex, pending, routeOptions, bestOption, emitted,
             recommendations, totalCostSavings, totalTimeSavings,
             totalDistanceSavings, emittedFor>>
applyVars == <<optimizedEdges, recIndex, applied>>
geoVars == <<cache, reverseCache, calls>>
parseVars == <<input, parsed>>
sessionVars == <<provider, generation>>
mapVars == <<isAddingNode, addedNodes, armings>>
vars == <<routeVars, tourVars, optVars, applyVars, geoVars, parseVars, sessionVars,
          mapVars>>


\* JavaScript's undefined as an array element (an out-of-range array read).
\* An absent property is a record without that field: Has(obj, "field").
Undefined == [undefined |-> TRUE]
Has(obj, field) == field \in DOMAIN obj

-----------------------------------------------------------------------------
(* Bounds of the model *)

\* grid coordinates run over 0..MaxCoord
MaxCoord == 1
\* the backend answers with at most MaxRoutes candidate routes
MaxRoutes == 2
\* optimizeRoute is called with at most MaxPoints points
MaxPoints == 3
\* the network has at most MaxEdges edges
MaxEdges == 2
\* parseInput is called with every text of at most MaxTextLen characters
MaxTextLen == 5
\* the geocoding service is called at most MaxCalls times
MaxCalls == 2
\* the parent takes over applied edges at most MaxHandovers times
MaxHandovers == 1
\* add-node mode is armed at most MaxArmings times
MaxArmings == 1

-----------------------------------------------------------------------------
(* Arithmetic helpers *)

\* Math.round(n / d) for n >= 0, d > 0: floor(n/d + 1/2)
RoundDiv(n, d) == (2 * n + d) \div (2 * d)

RECURSIVE ISqrtBetween(_, _, _)
\* the largest r in lo..hi with r*r <= n (bisection)
ISqrtBetween(n, lo, hi) ==
    IF lo >= hi THEN lo
    ELSE LET mid == (lo + hi + 1) \div 2
         IN  IF mid * mid <= n THEN ISqrtBetween(n, mid, hi)
             ELSE ISqrtBetween(n, lo, mid - 1)

Abs(n) == IF n < 0 THEN -n ELSE n

-----------------------------------------------------------------------------
(* Transport mode registry *)

\* Object.keys(TRANSPORT_MODES): insertion order of the table
ModeOrder == <<"driving-hgv", "driving-car", "cycling", "foot-walking">>
TransportMode == {ModeOrder[i] : i \in 1..Len(ModeOrder)}

TRANSPORT_MODES ==
    [m \in TransportMode |->
        CASE m = "driving-hgv"  -> [costPerKm |-> 25, maxSpeed |-> 60]
          [] m = "driving-car"  -> [costPerKm |-> 15, maxSpeed |-> 80]
          [] m = "cycling"      -> [costPerKm |-> 5,  maxSpeed |-> 15]
          [] m = "foot-walking" -> [costPerKm |-> 2,  maxSpeed |-> 5]]

RouteProfile == {"fastest", "shortest", "recommended"}

\* ticks per second: durations are counted in 1/200 s
TicksPerSecond == 200
\* metres of arc per grid unit (R times the grid's angular step)
MetresPerGridUnit == 100
\* INR 50 per hour operational cost
OperationalCostPerHour == 50

RoutePoint == [lat : 0..MaxCoord, lng : 0..MaxCoord]

-----------------------------------------------------------------------------
(* RoutingService.calculateStraightLineDistance *)

\* metres between two grid points that lie dLat and dLng grid units apart
GridDistances ==
    [d \in (0..MaxCoord) \X (0..MaxCoord) |->
        ISqrtBetween((d[1] * d[1] + d[2] * d[2]) * MetresPerGridUnit * MetresPerGridUnit,
                     0, (d[1] + d[2]) * MetresPerGridUnit)]

\* metres between two grid points
calculateStraightLineDistance(start, end) ==
    GridDistances[<<Abs(end.lat - start.lat), Abs(end.lng - start.lng)>>]

\* (distance / 1000) / maxSpeed * 3600 seconds, in ticks (the division is exact)
StraightLineDuration(distance, mode) ==
    (distance * 3600 * TicksPerSecond) \div (1000 * TRANSPORT_MODES[mode].maxSpeed)

-----------------------------------------------------------------------------
(* The routing backend *)

\* summary values the backend may report: metres, ticks
BackendDistances == {0, 150}
BackendDurations == {0, 90 * TicksPerSecond}

\* route.geometry.coordinates: [lng, lat] pairs
BackendCoordinates == << <<0, 0>>, <<1, 0>>, <<1, 1>>, <<0, 1>> >>

\* route.segments: the way_points of a step are the 0-based indices of the
\* first and the last coordinate of the stretch the step covers
BackendSegments ==
    << [distance |-> 100, duration |-> 60 * TicksPerSecond,
        steps |-> << [instruction |-> "Head north", way_points |-> <<0, 1>>] >>],
       [distance |-> 50, duration |-> 30 * TicksPerSecond,
        steps |-> << [instruction |-> "Turn right", way_points |-> <<1, 3>>],
                     [instruction |-> "Arrive", way_points |-> <<3, 3>>] >>] >>

BackendSummaries == [distance : BackendDistances, duration : BackendDurations]

\* candidate routes as the response schema gives them
WellFormedCandidates ==
    {[summary |-> s, geometry |-> [coordinates |-> BackendCoordinates],
      segments |-> BackendSegments] : s \in BackendSummaries}

\* candidate routes with a part missing; reading through the missing part
\* throws a TypeError inside the try block
MalformedCandidates ==
    LET s == CHOOSE x \in BackendSummaries : x.distance > 0 /\ x.duration > 0
    IN  { [geometry |-> [coordinates |-> BackendCoordinates],
           segments |-> BackendSegments],
          [summary |-> s, segments |-> BackendSegments],
          [summary |-> s, geometry |-> [coordinates |-> BackendCoordinates]] }

Candidates == WellFormedCandidates \cup MalformedCandidates

RouteLists == UNION {[1..n -> Candidates] : n \in 0..MaxRoutes}

\* every way the fetch of line 202 and the body read of line 208 can end
BackendResponses ==
    { [kind |-> "network_error"],       \* fetch rejects
      [kind |-> "http_error"],          \* response.ok is false
      [kind |-> "body_error"],          \* response.json() rejects
      [kind |-> "ok"] }                 \* body without routes
    \cup {[kind |-> "ok", routes |-> r] : r \in RouteLists}

\* the answers explored for the evaluations of optimizeTransportModes: the
\* backend is down, or it answers with one candidate of positive length
EvaluationResponses ==
    { [kind |-> "network_error"] }
    \cup {[kind |-> "ok", routes |-> <<c>>] :
             c \in {w \in WellFormedCandidates :
                       w.summary.distance > 0 /\ w.summary.duration > 0}}

IsWellFormed(route) ==
    Has(route, "summary") /\ Has(route, "geometry") /\ Has(route, "segments")

-----------------------------------------------------------------------------
(* RoutingService.calculateRoute *)

\* a slip of FirstCandidate: the last candidate is taken
LastCandidate(routes) == routes[Len(routes)]

\* const route = data.routes[0]
FirstCandidate(routes) == routes[1]

\* a 0-based array read; out of range reads undefined
At(arr, idx) == IF idx + 1 \in 1..Len(arr) THEN arr[idx + 1] ELSE Undefined

\* route.geometry.coordinates.map(coord => ({lng: coord[0], lat: coord[1]}))
ConvertGeometry(coordinates) ==
    [i \in 1..Len(coordinates) |-> [lng |-> coordinates[i][1], lat |-> coordinates[i][2]]]

\* step.way_points.map(wpIndex => geometry[wpIndex])
StepPoints(step, geometry) ==
    [k \in 1..Len(step.way_points) |-> At(geometry, step.way_points[k])]

RECURSIVE StepsGeometry(_, _)
\* segment.steps.flatMap(step => step.way_points.map(...))
StepsGeometry(steps, geometry) ==
    IF steps = <<>> THEN <<>>
    ELSE StepPoints(Head(steps), geometry) \o StepsGeometry(Tail(steps), geometry)

\* route.segments.map(...): instructions and the geometry points of the way_points
ConvertSegments(segments, geometry) ==
    [i \in 1..Len(segments) |->
        [distance |-> segments[i].distance,
         duration |-> segments[i].duration,
         instructions |-> [j \in 1..Len(segments[i].steps) |->
                              segments[i].steps[j].instruction],
         geometry |-> StepsGeometry(segments[i].steps, geometry)]]

\* ticks of duration that cost one currency unit: durationHours * 50
TicksPerCostUnit == (3600 * TicksPerSecond) \div OperationalCostPerHour

\* Math.round(distanceKm * costPerKm + durationHours * 50)
SuccessCost(distance, duration, mode) ==
    RoundDiv(distance * TRANSPORT_MODES[mode].costPerKm * TicksPerCostUnit
                 + duration * 1000,
             1000 * TicksPerCostUnit)

\* the RouteResponse built from the chosen candidate (lines 214-245)
SuccessRoute(route, mode) ==
    LET geometry == ConvertGeometry(route.geometry.coordinates)
    IN  [distance |-> route.summary.distance,
         duration |-> route.summary.duration,
         geometry |-> geometry,
         segments |-> ConvertSegments(route.segments, geometry),
         cost |-> SuccessCost(route.summary.distance, route.summary.duration, mode)]

\* a slip of FallbackCost: the hourly surcharge of the success path is added
FallbackCostSurcharged(distance, mode) ==
    SuccessCost(distance, StraightLineDuration(distance, mode), mode)

\* Math.round((distance / 1000) * costPerKm)
FallbackCost(distance, mode) ==
    RoundDiv(distance * TRANSPORT_MODES[mode].costPerKm, 1000)

\* (distance / 1000).toFixed(1), in tenths of a kilometre
KmToFixed1(distance) == RoundDiv(distance, 100)

\* the straight-line RouteResponse (lines 250-266)
FallbackRoute(start, end, mode) ==
    LET distance == calculateStraightLineDistance(start, end)
        duration == StraightLineDuration(distance, mode)
    IN  [distance |-> distance,
         duration |-> duration,
         geometry |-> <<start, end>>,
         segments |-> << [distance |-> distance,
                          duration |-> duration,
                          instructions |-> << <<"Travel", KmToFixed1(distance),
                                                "km from start to destination">> >>,
                          geometry |-> <<start, end>>] >>,
         cost |-> FallbackCost(distance, mode)]

\* the try block: either it throws or it returns the backend's route
TryBlock(mode, response) ==
    IF response.kind # "ok" THEN [threw |-> TRUE]
    ELSE IF ~Has(response, "routes") THEN [threw |-> TRUE]
    ELSE IF Len(response.routes) = 0 THEN [threw |-> TRUE]
    ELSE LET route == FirstCandidate(response.routes)
         IN  IF ~IsWellFormed(route) THEN [threw |-> TRUE]
             ELSE [threw |-> FALSE, value |-> SuccessRoute(route, mode)]

\* a slip of CatchBlock: the error is logged and thrown again
CatchBlockRethrow(start, end, mode) == [status |-> "raised"]

\* the catch block: it returns the straight-line route
CatchBlock(start, end, mode) ==
    [status |-> "returned", value |-> FallbackRoute(start, end, mode)]

\* how a call ends once the backend has answered
calculateRoute(start, end, mode, response) ==
    LET try == TryBlock(mode, response)
    IN  IF try.threw THEN CatchBlock(start, end, mode)
        ELSE [status |-> "returned", value |-> try.value]

NoArgs == [transportMode |-> "none"]
NoResponse == [kind |-> "none"]
NoOutcome == [status |-> "none"]

\* the caller invokes calculateRoute; the request is sent (line 202)
CalculateRouteCall(start, end, mode, profile) ==
    /\ rPc = "idle"
    /\ rPc' = "fetching"
    /\ rArgs' = [start |-> start, end |-> end, transportMode |-> mode,
                 profile |-> profile]
    /\ UNCHANGED <<rResponse, rOutcome>>
    /\ UNCHANGED <<tourVars, optVars, applyVars, geoVars, parseVars,
                   sessionVars, mapVars>>

\* the backend answers and the call runs to its end
CalculateRouteSettle(response) ==
    /\ rPc = "fetching"
    /\ rPc' = "settled"
    /\ rResponse' = response
    /\ rOutcome' = calculateRoute(rArgs.start, rArgs.end, rArgs.transportMode, response)
    /\ UNCHANGED rArgs
    /\ UNCHANGED <<tourVars, optVars, applyVars, geoVars, parseVars,
                   sessionVars, mapVars>>

\* the caller has taken the result
CalculateRouteDone ==
    /\ rPc = "settled"
    /\ rPc' = "idle"
    /\ rArgs' = NoArgs
    /\ rResponse' = NoResponse
    /\ rOutcome' = NoOutcome
    /\ UNCHANGED <<tourVars, optVars, applyVars, geoVars, parseVars,
                   sessionVars, mapVars>>

RouteNext ==
    \/ /\ rPc = "idle"
       /\ \E start \in RoutePoint, end \in RoutePoint, mode \in TransportMode,
             profile \in RouteProfile : CalculateRouteCall(start, end, mode, profile)
    \/ /\ rPc = "fetching"
       /\ \E response \in BackendResponses : CalculateRouteSettle(response)
    \/ CalculateRouteDone

-----------------------------------------------------------------------------
(* RoutingService.optimizeRoute *)

\* points[i] for a 0-based index i
PointAt(points, i) == points[i + 1]

\* points.map((_, i) => i)
IdentityOrder(points) == [i \in 1..Len(points) |-> i - 1]

\* a slip of IsDegenerate: points.length < 2
IsDegenerateStrict(points) == Len(points) < 2

\* if (points.length <= 2)
IsDegenerate(points) == Len(points) <= 2

\* the result of the degenerate case (lines 296-301)
DegenerateResult(points) ==
    [optimizedOrder |-> IdentityOrder(points),
     totalDistance |-> 0, totalDuration |-> 0, totalCost |-> 0]

\* [...Array(points.length).keys()].slice(1)
InitialUnvisited(points) == [i \in 1..(Len(points) - 1) |-> i]

\* let current = 0; let order = [0]
StartIndex == 0

\* a slip of InitialTotals: the totals are kept in the service object and
\* not reset by a call
InitialTotalsKept == [totalDistance |-> totalDistance, totalDuration |-> totalDuration]

\* let totalDistance = 0; let totalDuration = 0: locals, fresh in every call
InitialTotals == [totalDistance |-> 0, totalDuration |-> 0]

RECURSIVE ScanNearestLast(_, _, _, _, _)
\* a slip of ScanNearest: distance <= minDistance, the last of several
\* equally near indices wins
ScanNearestLast(points, cur, unv, i, best) ==
    IF i > Len(unv) THEN best
    ELSE LET distance == calculateStraightLineDistance(PointAt(points, cur),
                                                       PointAt(points, unv[i]))
         IN  IF distance <= best.minDistance
             THEN ScanNearestLast(points, cur, unv, i + 1,
                                  [nearest |-> unv[i], minDistance |-> distance])
             ELSE ScanNearestLast(points, cur, unv, i + 1, best)

RECURSIVE ScanNearest(_, _, _, _, _)
\* the for loop of lines 314-320 from position i (1-based) of unv on,
\* with the best index and distance found so far
ScanNearest(points, cur, unv, i, best) ==
    IF i > Len(unv) THEN best
    ELSE LET distance == calculateStraightLineDistance(PointAt(points, cur),
                                                       PointAt(points, unv[i]))
         IN  IF distance < best.minDistance
             THEN ScanNearest(points, cur, unv, i + 1,
                              [nearest |-> unv[i], minDistance |-> distance])
             ELSE ScanNearest(points, cur, unv, i + 1, best)

\* lines 311-320: the unvisited index nearest to the current point
NearestUnvisited(points, cur, unv) ==
    ScanNearest(points, cur, unv, 2,
                [nearest |-> unv[1],
                 minDistance |-> calculateStraightLineDistance(
                                     PointAt(points, cur), PointAt(points, unv[1]))])

\* a slip of RemoveVisited: the filter keeps everything, no index is removed
RemoveNone(unv, nearest) == unv

\* a slip of RemoveVisited: unvisited.slice(1) drops the head, not the nearest
RemoveHead(unv, nearest) == Tail(unv)

\* unvisited.filter(i => i !== nearest)
RemoveVisited(unv, nearest) == SelectSeq(unv, LAMBDA i : i # nearest)

RECURSIVE LegCosts(_, _)
\* the rounded costs of the first k legs of the order, added up
LegCosts(mode, k) ==
    IF k = 0 THEN 0
    ELSE LegCosts(mode, k - 1)
         + RoundDiv(calculateStraightLineDistance(PointAt(tPoints, order[k]),
                                                  PointAt(tPoints, order[k + 1]))
                    * TRANSPORT_MODES[mode].costPerKm, 1000)

\* a slip of TourCost: the cost is rounded leg by leg
TourCostPerLeg(distance, mode) == LegCosts(mode, Len(order) - 1)

\* Math.round((totalDistance / 1000) * costPerKm)
TourCost(distance, mode) == RoundDiv(distance * TRANSPORT_MODES[mode].costPerKm, 1000)

NoResult == [status |-> "none"]

tourLocals == <<unvisited, current, order, totalDistance, totalDuration, tIter>>

\* a caller invokes optimizeRoute(points, mode)
OptimizeRouteCall(points, mode) ==
    /\ tPc = "idle"
    /\ tPc' = "called"
    /\ tPoints' = points
    /\ tMode' = mode
    /\ UNCHANGED <<tourLocals, tResult, tPrev>>
    /\ UNCHANGED <<routeVars, optVars, applyVars, geoVars, parseVars,
                   sessionVars, mapVars>>

\* the caller invokes optimizeRoute once more with the same arguments
OptimizeRouteCallAgain ==
    /\ tPc = "done"
    /\ tPrev = NoResult
    /\ tPc' = "called"
    /\ tPrev' = tResult
    /\ tResult' = NoResult
    /\ UNCHANGED <<tPoints, tMode, tourLocals>>
    /\ UNCHANGED <<routeVars, optVars, applyVars, geoVars, parseVars,
                   sessionVars, mapVars>>

\* lines 295-302: at most two points
OptimizeRouteDegenerate ==
    /\ tPc = "called"
    /\ IsDegenerate(tPoints)
    /\ tPc' = "done"
    /\ tResult' = DegenerateResult(tPoints)
    /\ UNCHANGED <<tPoints, tMode, tourLocals, tPrev>>
    /\ UNCHANGED <<routeVars, optVars, applyVars, geoVars, parseVars,
                   sessionVars, mapVars>>

\* lines 304-308: the locals of the nearest-neighbour loop
OptimizeRouteStart ==
    /\ tPc = "called"
    /\ ~IsDegenerate(tPoints)
    /\ tPc' = "loop"
    /\ unvisited' = InitialUnvisited(tPoints)
    /\ current' = StartIndex
    /\ order' = <<StartIndex>>
    /\ totalDistance' = InitialTotals.totalDistance
    /\ totalDuration' = InitialTotals.totalDuration
    /\ tIter' = 0
    /\ UNCHANGED <<tPoints, tMode, tResult, tPrev>>
    /\ UNCHANGED <<routeVars, optVars, applyVars, geoVars, parseVars,
                   sessionVars, mapVars>>

\* lines 310-327: one iteration of the while loop
OptimizeRouteStep ==
    /\ tPc = "loop"
    /\ Len(unvisited) > 0
    /\ LET found == NearestUnvisited(tPoints, current, unvisited)
       IN  /\ order' = Append(order, found.nearest)
           /\ totalDistance' = totalDistance + found.minDistance
           /\ totalDuration' = totalDuration + StraightLineDuration(found.minDistance, tMode)
           /\ current' = found.nearest
           /\ unvisited' = RemoveVisited(unvisited, found.nearest)
    /\ tIter' = tIter + 1
    /\ UNCHANGED <<tPc, tPoints, tMode, tResult, tPrev>>
    /\ UNCHANGED <<routeVars, optVars, applyVars, geoVars, parseVars,
                   sessionVars, mapVars>>

\* lines 329-336: the loop has ended
OptimizeRouteFinish ==
    /\ tPc = "loop"
    /\ Len(unvisited) = 0
    /\ tPc' = "done"
    /\ tResult' = [optimizedOrder |-> order,
                   totalDistance |-> totalDistance,
                   totalDuration |-> totalDuration,
                   totalCost |-> TourCost(totalDistance, tMode)]
    /\ UNCHANGED <<tPoints, tMode, tourLocals, tPrev>>
    /\ UNCHANGED <<routeVars, optVars, applyVars, geoVars, parseVars,
                   sessionVars, mapVars>>

\* the caller has taken the result; the call's frame is gone
OptimizeRouteDone ==
    /\ tPc = "done"
    /\ tPc' = "idle"
    /\ tPoints' = <<>>
    /\ tMode' = "none"
    /\ unvisited' = <<>>
    /\ current' = 0
    /\ order' = <<>>
    /\ totalDistance' = 0
    /\ totalDuration' = 0
    /\ tIter' = 0
    /\ tResult' = NoResult
    /\ tPrev' = NoResult
    /\ UNCHANGED <<routeVars, optVars, applyVars, geoVars, parseVars,
                   sessionVars, mapVars>>

PointLists == UNION {[1..n -> RoutePoint] : n \in 0..MaxPoints}

TourNext ==
    \/ /\ tPc = "idle"
       /\ \E points \in PointLists, mode \in TransportMode :
             OptimizeRouteCall(points, mode)
    \/ OptimizeRouteCallAgain
    \/ OptimizeRouteDegenerate
    \/ OptimizeRouteStart
    \/ OptimizeRouteStep
    \/ OptimizeRouteFinish
    \/ OptimizeRouteDone

-----------------------------------------------------------------------------
(* TransportOptimizer: optimizeTransportModes *)

\* JavaScript's null
Null == [null |-> TRUE]

Objective == {"cost", "time", "distance", "balanced"}

\* weights of the balanced score, in tenths: 40% cost, 30% time, 30% distance
WeightCost == 4
WeightTime == 3
WeightDistance == 3

\* nodes.find(n => n.name === name): the first node of that name, or undefined
FindNode(ns, name) ==
    IF \E i \in 1..Len(ns) : ns[i].name = name
    THEN ns[CHOOSE i \in 1..Len(ns) :
                /\ ns[i].name = name
                /\ \A j \in 1..(i - 1) : ns[j].name # name]
    ELSE Undefined

\* edge.transportMode || 'driving-hgv'
CurrentMode(edge) ==
    IF Has(edge, "transportMode") THEN edge.transportMode ELSE "driving-hgv"

\* lines 83-100: what one evaluation resolves to, given how calculateRoute ended
RouteOption(mode, outcome) ==
    IF outcome.status = "returned"
    THEN [mode |-> mode,
          cost |-> outcome.value.cost,
          time |-> outcome.value.duration,        \* result.duration / 3600, in ticks
          distance |-> outcome.value.distance]    \* result.distance / 1000, in metres
    ELSE Null

\* routeOptions.filter(Boolean), in the order of Object.keys(TRANSPORT_MODES)
ValidOptions(options) ==
    SelectSeq([i \in 1..Len(ModeOrder) |-> options[ModeOrder[i]]],
              LAMBDA o : o # Null)

RECURSIVE MaxOf(_, _)
\* Math.max(...validOptions.map(o => o[field]))
MaxOf(opts, field) ==
    IF Len(opts) = 1 THEN opts[1][field]
    ELSE LET rest == MaxOf(Tail(opts), field)
         IN  IF opts[1][field] > rest THEN opts[1][field] ELSE rest

\* whether the balanced score is a number: a zero maximum makes it 0/0 = NaN
ScoreIsNumber(opts) ==
    MaxOf(opts, "cost") > 0 /\ MaxOf(opts, "time") > 0 /\ MaxOf(opts, "distance") > 0

\* the balanced score of option o times 10 * maxCost * maxTime * maxDistance
ScaledScore(o, opts) ==
    LET maxCost == MaxOf(opts, "cost")
        maxTime == MaxOf(opts, "time")
        maxDistance == MaxOf(opts, "distance")
    IN  WeightCost * o.cost * maxTime * maxDistance
          + WeightTime * o.time * maxCost * maxDistance
          + WeightDistance * o.distance * maxCost * maxTime

\* optionScore < bestScore (line 144); a comparison with NaN is false
BalancedLess(option, best, opts) ==
    /\ ScoreIsNumber(opts)
    /\ ScaledScore(option, opts) < ScaledScore(best, opts)

\* a slip of IsBetter: <= for <, so that the last of equal options wins
IsBetterOrEqual(objective, option, best, opts) ==
    CASE objective = "cost"     -> option.cost <= best.cost
      [] objective = "time"     -> option.time <= best.time
      [] objective = "distance" -> option.distance <= best.distance
      [] objective = "balanced" -> BalancedLess(option, best, opts)

\* the comparison of the reducer of each objective (lines 112-145)
IsBetter(objective, option, best, opts) ==
    CASE objective = "cost"     -> option.cost < best.cost
      [] objective = "time"     -> option.time < best.time
      [] objective = "distance" -> option.distance < best.distance
      [] objective = "balanced" -> BalancedLess(option, best, opts)

RECURSIVE ReduceBest(_, _, _, _)
\* validOptions.reduce((best, option) => ...) from position i on, without an
\* initial value: the accumulator starts as the first option
ReduceBest(objective, opts, i, best) ==
    IF i > Len(opts) THEN best
    ELSE ReduceBest(objective, opts, i + 1,
                    IF IsBetter(objective, opts[i], best, opts) THEN opts[i] ELSE best)

\* lines 107-148
SelectBest(objective, opts) == ReduceBest(objective, opts, 2, opts[1])

Reason(objective) ==
    CASE objective = "cost"     -> "Lowest cost option"
      [] objective = "time"     -> "Fastest delivery time"
      [] objective = "distance" -> "Shortest distance"
      [] objective = "balanced" -> "Best balanced option"

\* the three savings of an edge against an option (lines 153-155)
Savings(edge, option) ==
    [cost |-> edge.cost - option.cost,
     time |-> edge.travelTimeHr - option.time,
     distance |-> edge.distanceKm - option.distance]

\* a slip of ModeDiffers: the mode test is left out
ModeIgnored(edge, option) == TRUE

\* if (bestOption.mode !== currentMode)
ModeDiffers(edge, option) == option.mode # CurrentMode(edge)

\* if (costSaving > 0 || timeSaving > 0 || distanceSaving > 0)
HasSaving(saving) == saving.cost > 0 \/ saving.time > 0 \/ saving.distance > 0

\* a slip of SavingsScore: the cost saving is reported under every objective
SavingsScoreCostOnly(objective, saving) == saving.cost

\* lines 164-167.  Units: cost in currency units, time in ticks, distance in
\* metres, balanced in 1/TicksPerCostUnit currency units
\* (costSaving + timeSaving * 50 + distanceSaving * 10)
SavingsScore(objective, saving) ==
    CASE objective = "cost"     -> saving.cost
      [] objective = "time"     -> saving.time
      [] objective = "distance" -> saving.distance
      [] objective = "balanced" ->
            saving.cost * TicksPerCostUnit + saving.time
              + (saving.distance * 10 * TicksPerCostUnit) \div 1000

RECURSIVE SumField(_, _)
\* edges.reduce((sum, edge) => sum + edge[field], 0)
SumField(es, field) ==
    IF es = <<>> THEN 0 ELSE es[1][field] + SumField(Tail(es), field)

\* a slip of calculateCurrentMetrics: only the first edge is counted
CurrentMetricsOfFirstEdge(es) ==
    [totalCost |-> es[1].cost,
     totalTime |-> es[1].travelTimeHr,
     totalDistance |-> es[1].distanceKm]

\* lines 56-62
calculateCurrentMetrics(es) ==
    [totalCost |-> SumField(es, "cost"),
     totalTime |-> SumField(es, "travelTimeHr"),
     totalDistance |-> SumField(es, "distanceKm")]

NoOptions == [m \in {} |-> Null]

\* the user picks an objective
SetOptimizationMode(objective) ==
    /\ oPc = "idle"
    /\ objective # optimizationMode
    /\ optimizationMode' = objective
    /\ UNCHANGED <<nodes, edges, isOptimizing, optimization, oPc, edgeIndex,
                   pending, routeOptions, bestOption, emitted, recommendations,
                   totalCostSavings, totalTimeSavings, totalDistanceSavings>>
    /\ UNCHANGED emittedFor
    /\ UNCHANGED <<routeVars, tourVars, applyVars, geoVars, parseVars,
                   sessionVars, mapVars>>

\* lines 64-73: the user starts an optimisation.  The handler never reads the
\* result of an earlier run, so runs are explored from a state without one.
OptimizeStart ==
    /\ oPc = "idle"
    /\ ~isOptimizing
    /\ optimization = Null
    /\ applied = <<>>
    /\ Len(edges) # 0
    /\ isOptimizing' = TRUE
    /\ recommendations' = <<>>
    /\ totalCostSavings' = 0
    /\ totalTimeSavings' = 0
    /\ totalDistanceSavings' = 0
    /\ edgeIndex' = 1
    /\ emittedFor' = <<>>
    /\ oPc' = "edge"
    /\ UNCHANGED <<nodes, edges, optimizationMode, optimization, pending,
                   routeOptions, bestOption, emitted>>
    /\ UNCHANGED <<routeVars, tourVars, applyVars, geoVars, parseVars,
                   sessionVars, mapVars>>

\* a slip of EdgeSkip: break for continue, the loop is left at the first edge
\* without both endpoints
EdgeSkipBreak ==
    /\ oPc = "edge"
    /\ edgeIndex <= Len(edges)
    /\ \/ FindNode(nodes, edges[edgeIndex].from) = Undefined
       \/ FindNode(nodes, edges[edgeIndex].to) = Undefined
    /\ edgeIndex' = Len(edges) + 1
    /\ UNCHANGED <<nodes, edges, optimizationMode, isOptimizing, optimization, oPc,
                   pending, routeOptions, bestOption, emitted, recommendations,
                   totalCostSavings, totalTimeSavings, totalDistanceSavings>>
    /\ UNCHANGED emittedFor
    /\ UNCHANGED <<routeVars, tourVars, applyVars, geoVars, parseVars,
                   sessionVars, mapVars>>

\* lines 76-79: an endpoint of the edge is no node: continue
EdgeSkip ==
    /\ oPc = "edge"
    /\ edgeIndex <= Len(edges)
    /\ \/ FindNode(nodes, edges[edgeIndex].from) = Undefined
       \/ FindNode(nodes, edges[edgeIndex].to) = Undefined
    /\ edgeIndex' = edgeIndex + 1
    /\ UNCHANGED <<nodes, edges, optimizationMode, isOptimizing, optimization, oPc,
                   pending, routeOptions, bestOption, emitted, recommendations,
                   totalCostSavings, totalTimeSavings, totalDistanceSavings>>
    /\ UNCHANGED emittedFor
    /\ UNCHANGED <<routeVars, tourVars, applyVars, geoVars, parseVars,
                   sessionVars, mapVars>>

\* a slip of EdgeFanOut: only the first registered mode is evaluated
EdgeFanOutFirstMode ==
    /\ oPc = "edge"
    /\ edgeIndex <= Len(edges)
    /\ FindNode(nodes, edges[edgeIndex].from) # Undefined
    /\ FindNode(nodes, edges[edgeIndex].to) # Undefined
    /\ pending' = {ModeOrder[1]}
    /\ routeOptions' = NoOptions
    /\ oPc' = "evaluating"
    /\ UNCHANGED <<nodes, edges, optimizationMode, isOptimizing, optimization,
                   edgeIndex, bestOption, emitted, recommendations,
                   totalCostSavings, totalTimeSavings, totalDistanceSavings>>
    /\ UNCHANGED emittedFor
    /\ UNCHANGED <<routeVars, tourVars, applyVars, geoVars, parseVars,
                   sessionVars, mapVars>>

\* lines 82-83: one route evaluation per registered mode is issued
EdgeFanOut ==
    /\ oPc = "edge"
    /\ edgeIndex <= Len(edges)
    /\ FindNode(nodes, edges[edgeIndex].from) # Undefined
    /\ FindNode(nodes, edges[edgeIndex].to) # Undefined
    /\ pending' = TransportMode
    /\ routeOptions' = NoOptions
    /\ oPc' = "evaluating"
    /\ UNCHANGED <<nodes, edges, optimizationMode, isOptimizing, optimization,
                   edgeIndex, bestOption, emitted, recommendations,
                   totalCostSavings, totalTimeSavings, totalDistanceSavings>>
    /\ UNCHANGED emittedFor
    /\ UNCHANGED <<routeVars, tourVars, applyVars, geoVars, parseVars,
                   sessionVars, mapVars>>

\* lines 84-99: the evaluation of one mode settles
EvaluationSettle(mode, response) ==
    /\ oPc = "evaluating"
    /\ mode \in pending
    /\ LET fromNode == FindNode(nodes, edges[edgeIndex].from)
           toNode == FindNode(nodes, edges[edgeIndex].to)
           outcome == calculateRoute([lat |-> fromNode.y, lng |-> fromNode.x],
                                     [lat |-> toNode.y, lng |-> toNode.x],
                                     mode, response)
       IN  routeOptions' = [m \in DOMAIN routeOptions \cup {mode} |->
                               IF m = mode THEN RouteOption(mode, outcome)
                               ELSE routeOptions[m]]
    /\ pending' = pending \ {mode}
    /\ UNCHANGED <<nodes, edges, optimizationMode, isOptimizing, optimization, oPc,
                   edgeIndex, bestOption, emitted, recommendations,
                   totalCostSavings, totalTimeSavings, totalDistanceSavings>>
    /\ UNCHANGED emittedFor
    /\ UNCHANGED <<routeVars, tourVars, applyVars, geoVars, parseVars,
                   sessionVars, mapVars>>

\* lines 103-174: Promise.all has resolved; select and maybe recommend
EdgeScore ==
    /\ oPc = "evaluating"
    /\ pending = {}
    /\ LET edge == edges[edgeIndex]
           validOptions == ValidOptions(routeOptions)
       IN  IF Len(validOptions) = 0
           THEN /\ bestOption' = Null
                /\ emitted' = FALSE
                /\ UNCHANGED <<recommendations, totalCostSavings, totalTimeSavings,
                               totalDistanceSavings, emittedFor>>
           ELSE LET best == SelectBest(optimizationMode, validOptions)
                    saving == Savings(edge, best)
                IN  /\ bestOption' = best
                    /\ IF ModeDiffers(edge, best) /\ HasSaving(saving)
                       THEN /\ recommendations' = Append(recommendations,
                                   [from |-> edge.from,
                                    to |-> edge.to,
                                    currentMode |-> CurrentMode(edge),
                                    recommendedMode |-> best.mode,
                                    reason |-> Reason(optimizationMode),
                                    savings |-> SavingsScore(optimizationMode, saving)])
                            /\ totalCostSavings' = totalCostSavings + saving.cost
                            /\ totalTimeSavings' = totalTimeSavings + saving.time
                            /\ totalDistanceSavings' = totalDistanceSavings + saving.distance
                            /\ emittedFor' = Append(emittedFor, edgeIndex)
                            /\ emitted' = TRUE
                       ELSE /\ emitted' = FALSE
                            /\ UNCHANGED <<recommendations, totalCostSavings,
                                           totalTimeSavings, totalDistanceSavings,
                                           emittedFor>>
    /\ oPc' = "scored"
    /\ UNCHANGED <<nodes, edges, optimizationMode, isOptimizing, optimization,
                   edgeIndex, pending, routeOptions>>
    /\ UNCHANGED <<routeVars, tourVars, applyVars, geoVars, parseVars,
                   sessionVars, mapVars>>

\* line 75: the for loop moves on to the next edge
EdgeAdvance ==
    /\ oPc = "scored"
    /\ oPc' = "edge"
    /\ edgeIndex' = edgeIndex + 1
    /\ routeOptions' = NoOptions
    /\ bestOption' = Null
    /\ emitted' = FALSE
    /\ UNCHANGED <<nodes, edges, optimizationMode, isOptimizing, optimization,
                   pending, recommendations, totalCostSavings, totalTimeSavings,
                   totalDistanceSavings>>
    /\ UNCHANGED emittedFor
    /\ UNCHANGED <<routeVars, tourVars, applyVars, geoVars, parseVars,
                   sessionVars, mapVars>>

\* lines 177-196: the loop has ended; publish the result
OptimizeFinish ==
    /\ oPc = "edge"
    /\ edgeIndex > Len(edges)
    /\ LET now == calculateCurrentMetrics(edges)
       IN  optimization' =
               [mode |-> optimizationMode,
                totalCost |-> now.totalCost - totalCostSavings,
                totalTime |-> now.totalTime - totalTimeSavings,
                totalDistance |-> now.totalDistance - totalDistanceSavings,
                savings |-> [cost |-> totalCostSavings,
                             time |-> totalTimeSavings,
                             distance |-> totalDistanceSavings],
                recommendations |-> recommendations]
    /\ isOptimizing' = FALSE
    /\ oPc' = "idle"
    /\ edgeIndex' = 0
    /\ recommendations' = <<>>
    /\ totalCostSavings' = 0
    /\ totalTimeSavings' = 0
    /\ totalDistanceSavings' = 0
    /\ UNCHANGED <<nodes, edges, optimizationMode, pending, routeOptions,
                   bestOption, emitted>>
    /\ UNCHANGED emittedFor
    /\ UNCHANGED <<routeVars, tourVars, applyVars, geoVars, parseVars,
                   sessionVars, mapVars>>

-----------------------------------------------------------------------------
(* TransportOptimizer.applyOptimization *)

\* Number((seconds / 3600).toFixed(2)): hours to two decimals, in ticks
HoursToFixed2(duration) ==
    LET hundredth == 36 * TicksPerSecond
    IN  RoundDiv(duration, hundredth) * hundredth

\* Number((metres / 1000).toFixed(2)): kilometres to two decimals, in metres
KmToFixed2(distance) == RoundDiv(distance, 10) * 10

\* optimizedEdges.findIndex(e => e.from === rec.from && e.to === rec.to),
\* 1-based; 0 stands for the code's -1
FindEdgeIndex(es, rec) ==
    IF \E i \in 1..Len(es) : es[i].from = rec.from /\ es[i].to = rec.to
    THEN CHOOSE i \in 1..Len(es) :
             /\ es[i].from = rec.from /\ es[i].to = rec.to
             /\ \A j \in 1..(i - 1) : ~(es[j].from = rec.from /\ es[j].to = rec.to)
    ELSE 0

RECURSIVE FlatInstructions(_)
\* newRoute.segments.flatMap(s => s.instructions)
FlatInstructions(segments) ==
    IF segments = <<>> THEN <<>>
    ELSE Head(segments).instructions \o FlatInstructions(Tail(segments))

\* a slip of ReplacedEdge: the recommended mode is not written to the edge
ReplacedEdgeKeepsMode(edge, mode, newRoute) ==
    [f \in DOMAIN edge \cup {"routeGeometry", "instructions"} |->
        CASE f = "cost"          -> newRoute.cost
          [] f = "travelTimeHr"  -> HoursToFixed2(newRoute.duration)
          [] f = "distanceKm"    -> KmToFixed2(newRoute.distance)
          [] f = "routeGeometry" -> newRoute.geometry
          [] f = "instructions"  -> FlatInstructions(newRoute.segments)
          [] OTHER               -> edge[f]]

\* lines 220-228: the edge with the fields of the new route spread over it
ReplacedEdge(edge, mode, newRoute) ==
    [f \in DOMAIN edge \cup {"transportMode", "routeGeometry", "instructions"} |->
        CASE f = "transportMode" -> mode
          [] f = "cost"          -> newRoute.cost
          [] f = "travelTimeHr"  -> HoursToFixed2(newRoute.duration)
          [] f = "distanceKm"    -> KmToFixed2(newRoute.distance)
          [] f = "routeGeometry" -> newRoute.geometry
          [] f = "instructions"  -> FlatInstructions(newRoute.segments)
          [] OTHER               -> edge[f]]

\* lines 199-202: the user applies the stored result
ApplyStart ==
    /\ oPc = "idle"
    /\ optimization # Null
    /\ optimizedEdges' = edges
    /\ recIndex' = 1
    /\ oPc' = "applying"
    /\ UNCHANGED <<nodes, edges, optimizationMode, isOptimizing, optimization,
                   edgeIndex, pending, routeOptions, bestOption, emitted,
                   recommendations, totalCostSavings, totalTimeSavings,
                   totalDistanceSavings, emittedFor, applied>>
    /\ UNCHANGED <<routeVars, tourVars, geoVars, parseVars,
                   sessionVars, mapVars>>

\* lines 205-234: one iteration of the loop over the recommendations, the
\* route request of line 214 being answered by response
ApplyRecommendation(response) ==
    /\ oPc = "applying"
    /\ recIndex <= Len(optimization.recommendations)
    /\ LET rec == optimization.recommendations[recIndex]
           index == FindEdgeIndex(optimizedEdges, rec)
       IN  IF index = 0
           THEN UNCHANGED optimizedEdges
           ELSE LET edge == optimizedEdges[index]
                    fromNode == FindNode(nodes, edge.from)
                    toNode == FindNode(nodes, edge.to)
                IN  IF fromNode = Undefined \/ toNode = Undefined
                    THEN UNCHANGED optimizedEdges
                    ELSE LET outcome ==
                                 calculateRoute([lat |-> fromNode.y, lng |-> fromNode.x],
                                                [lat |-> toNode.y, lng |-> toNode.x],
                                                rec.recommendedMode, response)
                         IN  IF outcome.status = "returned"
                             THEN optimizedEdges' =
                                      [optimizedEdges EXCEPT
                                          ![index] = ReplacedEdge(edge, rec.recommendedMode,
                                                                  outcome.value)]
                             ELSE UNCHANGED optimizedEdges
    /\ recIndex' = recIndex + 1
    /\ UNCHANGED <<nodes, edges, optimizationMode, isOptimizing, optimization, oPc,
                   edgeIndex, pending, routeOptions, bestOption, emitted,
                   recommendations, totalCostSavings, totalTimeSavings,
                   totalDistanceSavings, emittedFor, applied>>
    /\ UNCHANGED <<routeVars, tourVars, geoVars, parseVars,
                   sessionVars, mapVars>>

\* lines 236-237: the list is handed over and the result is dropped
ApplyFinish ==
    /\ oPc = "applying"
    /\ recIndex > Len(optimization.recommendations)
    /\ applied' = optimizedEdges
    /\ optimization' = Null
    /\ oPc' = "idle"
    /\ optimizedEdges' = <<>>
    /\ recIndex' = 0
    /\ UNCHANGED <<nodes, edges, optimizationMode, isOptimizing, edgeIndex,
                   pending, routeOptions, bestOption, emitted, recommendations,
                   totalCostSavings, totalTimeSavings, totalDistanceSavings,
                   emittedFor>>
    /\ UNCHANGED <<routeVars, tourVars, geoVars, parseVars,
                   sessionVars, mapVars>>

-----------------------------------------------------------------------------
(* The networks the optimizer is mounted on *)

\* the nodes of the network: B lies one grid unit east of A, C one unit
\* north-east of A, and D shares A's coordinates
NetworkNodes ==
    << [name |-> "A", x |-> 0, y |-> 0],
       [name |-> "B", x |-> 1, y |-> 0],
       [name |-> "C", x |-> 1, y |-> 1],
       [name |-> "D", x |-> 0, y |-> 0] >>

\* the edges a network is made of.  Every edge keeps the ingestion rule
\* distanceKm > 0, travelTimeHr > 0, cost >= 0
EdgePool ==
    { [from |-> "A", to |-> "B", distanceKm |-> 100,
       travelTimeHr |-> 6 * TicksPerSecond, cost |-> 3],
      [from |-> "A", to |-> "C", distanceKm |-> 500,
       travelTimeHr |-> 200 * TicksPerSecond, cost |-> 40,
       transportMode |-> "cycling"],
      [from |-> "A", to |-> "D", distanceKm |-> 10,
       travelTimeHr |-> 1 * TicksPerSecond, cost |-> 1,
       transportMode |-> "driving-car"],
      [from |-> "B", to |-> "Z", distanceKm |-> 100,
       travelTimeHr |-> 6 * TicksPerSecond, cost |-> 3] }

EdgeLists == UNION {[1..n -> EdgePool] : n \in 1..MaxEdges}

OptNext ==
    \/ \E objective \in Objective : SetOptimizationMode(objective)
    \/ OptimizeStart
    \/ EdgeSkip
    \/ EdgeFanOut
    \/ /\ oPc = "evaluating"
       /\ \E mode \in pending, response \in EvaluationResponses :
             EvaluationSettle(mode, response)
    \/ EdgeScore
    \/ EdgeAdvance
    \/ OptimizeFinish
    \/ ApplyStart
    \/ /\ oPc = "applying"
       /\ \E response \in EvaluationResponses : ApplyRecommendation(response)
    \/ ApplyFinish

\* the parent takes the list handed to onOptimizationApplied (line 236) as
\* the network's edges and renders the optimizer with it
OnOptimizationApplied ==
    /\ oPc = "idle"
    /\ applied # <<>>
    /\ generation < MaxHandovers
    /\ edges' = applied
    /\ applied' = <<>>
    /\ generation' = generation + 1
    /\ UNCHANGED <<nodes, optimizationMode, isOptimizing, optimization, oPc,
                   edgeIndex, pending, routeOptions, bestOption, emitted,
                   recommendations, totalCostSavings, totalTimeSavings,
                   totalDistanceSavings, emittedFor, optimizedEdges, recIndex,
                   provider>>
    /\ UNCHANGED <<routeVars, tourVars, geoVars, parseVars, mapVars>>

\* routing backends that answer the same request the same way: one answer
\* per mode
Providers == [TransportMode -> EvaluationResponses]

\* optimise, apply, take over, optimise again, against such a backend
SessionNext ==
    \/ OptimizeStart
    \/ EdgeSkip
    \/ EdgeFanOut
    \/ /\ oPc = "evaluating"
       /\ \E mode \in pending : EvaluationSettle(mode, provider[mode])
    \/ EdgeScore
    \/ EdgeAdvance
    \/ OptimizeFinish
    \/ ApplyStart
    \/ /\ oPc = "applying"
       /\ recIndex <= Len(optimization.recommendations)
       /\ ApplyRecommendation(
              provider[optimization.recommendations[recIndex].recommendedMode])
    \/ ApplyFinish
    \/ OnOptimizationApplied

-----------------------------------------------------------------------------
(* GeocodingService *)

(* Numbers.  A number is a record [neg, whole, frac7]: the sign, the whole
   part and the fraction in units of 10^-7 (further digits are cut off; no
   text of the model has them).  NaN is a record of its own. *)

NaN == [nan |-> TRUE]

Dec(whole, frac7) == [neg |-> FALSE, whole |-> whole, frac7 |-> frac7]
Neg(n) == [neg |-> TRUE, whole |-> n.whole, frac7 |-> n.frac7]
IsZero(n) == n.whole = 0 /\ n.frac7 = 0

\* a < b
NumLess(a, b) ==
    LET MagLess(x, y) == x.whole < y.whole \/ (x.whole = y.whole /\ x.frac7 < y.frac7)
    IN  CASE a.neg /\ ~b.neg  -> ~(IsZero(a) /\ IsZero(b))
          [] ~a.neg /\ b.neg  -> FALSE
          [] ~a.neg /\ ~b.neg -> MagLess(a, b)
          [] a.neg /\ b.neg   -> MagLess(b, a)

\* a <= b
NumLeq(a, b) == ~NumLess(b, a)

\* the digits and their values
DigitValues ==
    LET digits == <<"0", "1", "2", "3", "4", "5", "6", "7", "8", "9">>
    IN  [c \in {digits[d] : d \in 1..Len(digits)} |->
            (CHOOSE d \in 1..Len(digits) : digits[d] = c) - 1]
IsDigit(c) == c \in DOMAIN DigitValues

\* \s, and what trim() strips
IsSpace(c) == c = " "

RECURSIVE Run(_, _, _)
\* the number of characters of s from position i on that are all in chars
Run(s, i, chars) ==
    IF i <= Len(s) /\ s[i] \in chars THEN 1 + Run(s, i + 1, chars) ELSE 0

\* the number of digits of s from position i on
DigitRun(s, i) == Run(s, i, DOMAIN DigitValues)

RECURSIVE DigitsValue(_, _, _)
\* the value of the n digits of s from position i on
DigitsValue(s, i, n) ==
    IF n = 0 THEN 0
    ELSE DigitsValue(s, i, n - 1) * 10 + DigitValues[s[i + n - 1]]

RECURSIVE Pow10(_)
Pow10(k) == IF k = 0 THEN 1 ELSE 10 * Pow10(k - 1)

\* parseFloat(s): leading whitespace, a sign, digits, a point, digits; NaN
\* when there is no digit (exponents do not occur in the texts of the model)
ParseFloat(s) ==
    LET p0 == 1 + Run(s, 1, {" "})
        signed == p0 <= Len(s) /\ s[p0] \in {"-", "+"}
        p1 == IF signed THEN p0 + 1 ELSE p0
        nWhole == DigitRun(s, p1)
        hasPoint == p1 + nWhole <= Len(s) /\ s[p1 + nWhole] = "."
        nFrac == IF hasPoint THEN DigitRun(s, p1 + nWhole + 1) ELSE 0
        kept == IF nFrac > 7 THEN 7 ELSE nFrac
    IN  IF nWhole = 0 /\ nFrac = 0 THEN NaN
        ELSE [neg |-> signed /\ s[p0] = "-",
              whole |-> DigitsValue(s, p1, nWhole),
              frac7 |-> DigitsValue(s, p1 + nWhole + 1, kept) * Pow10(7 - kept)]

\* x.toFixed(6), as [neg, whole, micro]: the nearest millionth, halves upwards
ToFixed6(x) ==
    LET micro == RoundDiv(x.frac7, 10)
        carry == micro = Pow10(6)
    IN  [neg |-> x.neg /\ ~IsZero(x),
         whole |-> IF carry THEN x.whole + 1 ELSE x.whole,
         micro |-> IF carry THEN 0 ELSE micro]

-----------------------------------------------------------------------------
(* GeocodingService.parseInput *)

RECURSIVE Trim(_)
\* input.trim(): whitespace is stripped from both ends
Trim(s) ==
    IF s # <<>> /\ IsSpace(Head(s)) THEN Trim(Tail(s))
    ELSE IF s # <<>> /\ IsSpace(s[Len(s)]) THEN Trim(SubSeq(s, 1, Len(s) - 1))
    ELSE s

\* -?\d+\.?\d*
IsCoordNumber(s) ==
    LET p1 == IF s # <<>> /\ s[1] = "-" THEN 2 ELSE 1
        nWhole == DigitRun(s, p1)
        hasPoint == p1 + nWhole <= Len(s) /\ s[p1 + nWhole] = "."
        p2 == IF hasPoint THEN p1 + nWhole + 1 ELSE p1 + nWhole
    IN  nWhole >= 1 /\ p2 + DigitRun(s, p2) = Len(s) + 1

\* [,\s]
IsSeparator(c) == c = "," \/ IsSpace(c)

\* the ways /^(-?\d+\.?\d*)[,\s]+(-?\d+\.?\d*)$/ matches t: group 1 ends at i,
\* group 2 starts at j (there is at most one)
CoordMatches(t) ==
    {ij \in (1..Len(t)) \X (1..Len(t)) :
        /\ ij[1] + 1 < ij[2]
        /\ IsCoordNumber(SubSeq(t, 1, ij[1]))
        /\ \A k \in (ij[1] + 1)..(ij[2] - 1) : IsSeparator(t[k])
        /\ IsCoordNumber(SubSeq(t, ij[2], Len(t)))}

\* /^(\d{6})$/
IsPincode(t) == Len(t) = 6 /\ \A k \in 1..Len(t) : IsDigit(t[k])

\* a slip of InRange: the limits themselves are refused
InRangeExclusive(x, limit) == NumLess(Neg(limit), x) /\ NumLess(x, limit)

\* x >= -limit && x <= limit
InRange(x, limit) == NumLeq(Neg(limit), x) /\ NumLeq(x, limit)

\* lines 519-551
parseInput(text) ==
    LET t == Trim(text)
        coordMatch == CoordMatches(t)
        ij == CHOOSE m \in coordMatch : TRUE
        lat == ParseFloat(SubSeq(t, 1, ij[1]))
        lng == ParseFloat(SubSeq(t, ij[2], Len(t)))
    IN  IF coordMatch # {} /\ InRange(lat, Dec(90, 0)) /\ InRange(lng, Dec(180, 0))
        THEN [type |-> "coordinates", parsed |-> [lat |-> lat, lng |-> lng]]
        ELSE IF IsPincode(t)
        THEN [type |-> "pincode", parsed |-> [pincode |-> t]]
        ELSE [type |-> "address", parsed |-> [address |-> t]]

\* parseInput has not returned yet
NotParsed == [type |-> "none"]

\* parseInput is called with the text
ParseInputCall ==
    /\ parsed = NotParsed
    /\ parsed' = parseInput(input)
    /\ UNCHANGED input
    /\ UNCHANGED <<routeVars, tourVars, optVars, applyVars, geoVars,
                   sessionVars, mapVars>>

\* the texts parseInput is called with: every text of at most MaxTextLen
\* characters of a small alphabet, and longer ones: postal codes and number
\* pairs at the limits
Texts ==
    LET alphabet == {"0", "9", "-", ".", ",", " ", "a"}
    IN  UNION {[1..n -> alphabet] : n \in 0..MaxTextLen}
        \cup { <<"5", "6", "0", "0", "0", "1">>,
               <<" ", "5", "6", "0", "0", "0", "1", " ">>,
               <<"5", "6", "0", "0", "0", "0", "1">>,
               <<"9", "0", ",", "1", "8", "0">>,
               <<"-", "9", "0", " ", "-", "1", "8", "0">>,
               <<"9", "0", ",", "1", "8", "0", ".", "5">>,
               <<"1", "2", ".", "9", "7", ",", " ", "7", "7", ".", "5", "9">> }

-----------------------------------------------------------------------------
(* GeocodingService.geocode, reverseGeocode, getSuggestions *)

\* an empty Map, an empty object
NoEntries == [k \in {} |-> Null]

\* a slip of CachePut: nothing is stored
CachePutNothing(map, key, value) == map

\* Map.set(key, value): a present key gets the new value
CachePut(map, key, value) ==
    [k \in DOMAIN map \cup {key} |-> IF k = key THEN value ELSE map[k]]

RECURSIVE JsonProperties(_)
\* "name":value,"name":value of the options, in insertion order
JsonProperties(options) ==
    IF options = <<>> THEN <<>>
    ELSE <<Head(options)[1], ":", Head(options)[2]>>
           \o (IF Len(options) > 1 THEN <<",">> ELSE <<>>)
           \o JsonProperties(Tail(options))

\* JSON.stringify(options): an options object is the sequence of its
\* <<name, value>> properties in insertion order
JsonStringify(options) == <<"{">> \o JsonProperties(options) \o <<"}">>

\* line 407: `${query}-${JSON.stringify(options)}`
GeocodeKey(query, options) == query \o <<"-">> \o JsonStringify(options)

\* line 462: `${lat.toFixed(6)}-${lng.toFixed(6)}`
ReverseKey(lat, lng) == <<ToFixed6(lat), "-", ToFixed6(lng)>>

\* a slip of isWithinBengaluru: the longitude is not tested
isWithinLatitudes(lat, lng) ==
    /\ lat # NaN /\ lng # NaN
    /\ NumLeq(Dec(12, 7342000), lat) /\ NumLeq(lat, Dec(13, 1394000))

\* lines 554-556; every comparison with NaN is false
isWithinBengaluru(lat, lng) ==
    /\ lat # NaN /\ lng # NaN
    /\ NumLeq(Dec(12, 7342000), lat) /\ NumLeq(lat, Dec(13, 1394000))
    /\ NumLeq(Dec(77, 4272000), lng) /\ NumLeq(lng, Dec(77, 7814000))

\* parseFloat(item[field]); parseFloat(undefined) is NaN
ItemNumber(item, field) ==
    IF Has(item, field) THEN ParseFloat(item[field]) ELSE NaN

\* lines 437-445: one item of the response as a GeocodingResult
GeocodingResult(item) ==
    [lat |-> ItemNumber(item, "lat"),
     lng |-> ItemNumber(item, "lon"),
     display_name |-> item.display_name,
     address |-> IF Has(item, "address") THEN item.address ELSE NoEntries,
     place_id |-> item.place_id,
     importance |-> IF Has(item, "importance") THEN item.importance ELSE 0,
     type |-> IF Has(item, "type") THEN item.type ELSE "unknown"]

\* lines 425-450: the try block of geocode up to the filtered results.  It
\* throws when fetch rejects, when the status is no success, when the body
\* cannot be parsed, and when the parsed body is no array (data.map)
GeocodeTry(response) ==
    IF response.kind = "ok" /\ Has(response, "data")
    THEN [threw |-> FALSE,
          value |-> SelectSeq([i \in 1..Len(response.data) |->
                                  GeocodingResult(response.data[i])],
                              LAMBDA r : isWithinBengaluru(r.lat, r.lng))]
    ELSE [threw |-> TRUE]

\* a slip of GeocodeCatch: the error is thrown on
GeocodeCatchRethrow == [status |-> "raised", value |-> <<>>]

\* lines 454-457
GeocodeCatch == [status |-> "returned", value |-> <<>>]

\* lines 477-492: the try block of reverseGeocode up to the result.  A body
\* that parses to null makes data.display_name throw
ReverseTry(response) ==
    IF response.kind = "ok" /\ response.data # Null
    THEN [threw |-> FALSE,
          value |-> [display_name |-> response.data.display_name,
                     address |-> IF Has(response.data, "address")
                                 THEN response.data.address ELSE NoEntries]]
    ELSE [threw |-> TRUE]

\* lines 496-499
ReverseCatch == [status |-> "returned", value |-> Null]

\* a slip of IsTooShort: texts of two characters are looked up
IsTooShortBelow2(text) == Len(text) < 2

\* line 560: input.length < 3
IsTooShort(text) == Len(text) < 3

\* lines 566-575 for a call made by getSuggestions on coordinates; the value
\* itself for every other call
Returned(entry, op, args, value) ==
    IF entry = "getSuggestions" /\ op = "reverseGeocode"
    THEN IF value # Null
         THEN << [lat |-> args.lat,
                  lng |-> args.lng,
                  display_name |-> value.display_name,
                  address |-> value.address,
                  place_id |-> "coordinates",
                  importance |-> 1,
                  type |-> "coordinates"] >>
         ELSE <<>>
    ELSE value

\* lines 407-429 and 462-481: the call up to its first await.  A cached key is
\* answered at once; otherwise the request is sent
Begin(entry, text, op, args, key, map) ==
    IF key \in DOMAIN map            \* Map.has(key)
    THEN [entry |-> entry, input |-> text, op |-> op, args |-> args, key |-> key,
          pc |-> "done", invoked |-> FALSE, response |-> NoResponse,
          status |-> "returned", result |-> Returned(entry, op, args, map[key])]
    ELSE [entry |-> entry, input |-> text, op |-> op, args |-> args, key |-> key,
          pc |-> "fetching", invoked |-> TRUE, response |-> NoResponse,
          status |-> "pending", result |-> <<>>]

GeocodeBegin(entry, text, query, options) ==
    Begin(entry, text, "geocode", [query |-> query, options |-> options],
          GeocodeKey(query, options), cache)

ReverseBegin(entry, text, lat, lng) ==
    Begin(entry, text, "reverseGeocode", [lat |-> lat, lng |-> lng],
          ReverseKey(lat, lng), reverseCache)

\* the call with the backend's answer and its outcome
Settled(call, response, outcome) ==
    [call EXCEPT !.pc = "done", !.response = response, !.status = outcome.status,
                 !.result = IF outcome.status = "returned"
                            THEN Returned(call.entry, call.op, call.args, outcome.value)
                            ELSE <<>>]

\* the bodies the geocoding backend answers a search with: lat and lon of an
\* item are texts
GeocodeBodies ==
    LET ItemInside ==
            [lat |-> <<"1", "2", ".", "9", "7", "1", "6">>, lon |-> <<"7", "7", ".", "5", "9", "4", "6">>, display_name |-> "MG Road, Bengaluru",
             place_id |-> "p1", address |-> [road |-> "MG Road"], importance |-> 8,
             type |-> "road"]
        ItemOnBoundary ==
            [lat |-> <<"1", "2", ".", "7", "3", "4", "2">>, lon |-> <<"7", "7", ".", "7", "8", "1", "4">>, display_name |-> "Kengeri", place_id |-> "p2"]
        ItemEast ==
            [lat |-> <<"1", "2", ".", "9", "7", "1", "6">>, lon |-> <<"7", "7", ".", "7", "8", "1", "5">>, display_name |-> "Hoskote", place_id |-> "p3"]
        ItemNorth ==
            [lat |-> <<"1", "3", ".", "2">>, lon |-> <<"7", "7", ".", "5", "9", "4", "6">>, display_name |-> "Devanahalli", place_id |-> "p4"]
        ItemWithoutLat ==
            [lon |-> <<"7", "7", ".", "5", "9", "4", "6">>, display_name |-> "Nowhere", place_id |-> "p5"]
    IN  { <<>>,
          <<ItemInside>>,
          <<ItemEast, ItemInside, ItemNorth>>,
          <<ItemWithoutLat, ItemOnBoundary>> }

\* what the backend may do with a search request; an answer without data is a
\* body that parses to something that is no array
GeocodeResponses ==
    { [kind |-> "network_error"], [kind |-> "http_error"],
      [kind |-> "body_error"], [kind |-> "ok"] }
    \cup {[kind |-> "ok", data |-> b] : b \in GeocodeBodies}

\* what the backend may do with a reverse request
ReverseResponses ==
    { [kind |-> "network_error"], [kind |-> "http_error"],
      [kind |-> "body_error"], [kind |-> "ok", data |-> Null],
      [kind |-> "ok", data |-> [display_name |-> "MG Road, Bengaluru",
                                address |-> [road |-> "MG Road"]]],
      [kind |-> "ok", data |-> [display_name |-> "Bengaluru"]] }

\* GeocodeTry of every answer of the backend
GeocodeTried == [response \in GeocodeResponses |-> GeocodeTry(response)]

\* geocode(query, options) is called
GeocodeCall(query, options) ==
    /\ Len(calls) < MaxCalls
    /\ calls' = Append(calls, GeocodeBegin("geocode", <<>>, query, options))
    /\ UNCHANGED <<cache, reverseCache>>
    /\ UNCHANGED <<routeVars, tourVars, optVars, applyVars, parseVars,
                   sessionVars, mapVars>>

\* a slip of GeocodeSettle: the empty list of the catch block is stored too
GeocodeSettleStoresFailure(i, response) ==
    /\ calls[i].pc = "fetching"
    /\ calls[i].op = "geocode"
    /\ LET try == GeocodeTried[response]
           value == IF try.threw THEN GeocodeCatch.value ELSE try.value
       IN  /\ cache' = CachePut(cache, calls[i].key, value)
           /\ calls' = [calls EXCEPT ![i] =
                           Settled(@, response,
                                   [status |-> "returned", value |-> value])]
    /\ UNCHANGED reverseCache
    /\ UNCHANGED <<routeVars, tourVars, optVars, applyVars, parseVars,
                   sessionVars, mapVars>>

\* lines 431-457: the request of a geocode call is answered
GeocodeSettle(i, response) ==
    /\ calls[i].pc = "fetching"
    /\ calls[i].op = "geocode"
    /\ LET try == GeocodeTried[response]
       IN  IF try.threw
           THEN /\ calls' = [calls EXCEPT ![i] = Settled(@, response, GeocodeCatch)]
                /\ UNCHANGED cache
           ELSE /\ cache' = CachePut(cache, calls[i].key, try.value)
                /\ calls' = [calls EXCEPT ![i] =
                                Settled(@, response,
                                        [status |-> "returned", value |-> try.value])]
    /\ UNCHANGED reverseCache
    /\ UNCHANGED <<routeVars, tourVars, optVars, applyVars, parseVars,
                   sessionVars, mapVars>>

\* reverseGeocode(lat, lng) is called
ReverseGeocodeCall(lat, lng) ==
    /\ Len(calls) < MaxCalls
    /\ calls' = Append(calls, ReverseBegin("reverseGeocode", <<>>, lat, lng))
    /\ UNCHANGED <<cache, reverseCache>>
    /\ UNCHANGED <<routeVars, tourVars, optVars, applyVars, parseVars,
                   sessionVars, mapVars>>

\* lines 483-499: the request of a reverseGeocode call is answered
ReverseGeocodeSettle(i, response) ==
    /\ calls[i].pc = "fetching"
    /\ calls[i].op = "reverseGeocode"
    /\ LET try == ReverseTry(response)
       IN  IF try.threw
           THEN /\ calls' = [calls EXCEPT ![i] = Settled(@, response, ReverseCatch)]
                /\ UNCHANGED reverseCache
           ELSE /\ reverseCache' = CachePut(reverseCache, calls[i].key, try.value)
                /\ calls' = [calls EXCEPT ![i] =
                                Settled(@, response,
                                        [status |-> "returned", value |-> try.value])]
    /\ UNCHANGED cache
    /\ UNCHANGED <<routeVars, tourVars, optVars, applyVars, parseVars,
                   sessionVars, mapVars>>

\* " Bengaluru Karnataka"
PincodeSuffix == <<" ", "B", "e", "n", "g", "a", "l", "u", "r", "u", " ", "K", "a", "r", "n", "a", "t", "a", "k", "a">>

\* lines 559-583: getSuggestions(text) up to its first await
GetSuggestionsCall(text) ==
    /\ Len(calls) < MaxCalls
    /\ calls' = Append(calls,
          IF IsTooShort(text)
          THEN [entry |-> "getSuggestions", input |-> text, op |-> "none",
                args |-> <<>>, key |-> <<>>, pc |-> "done", invoked |-> FALSE,
                response |-> NoResponse, status |-> "returned",
                result |-> <<>>]
          ELSE LET p == parseInput(text)
               IN  CASE p.type = "coordinates" ->
                            ReverseBegin("getSuggestions", text,
                                         p.parsed.lat, p.parsed.lng)
                     [] p.type = "pincode" ->
                            GeocodeBegin("getSuggestions", text,
                                         p.parsed.pincode \o PincodeSuffix,
                                         << <<"\"limit\"", "5">> >>)
                     [] OTHER ->
                            GeocodeBegin("getSuggestions", text, text,
                                         << <<"\"limit\"", "8">> >>))
    /\ UNCHANGED <<cache, reverseCache>>
    /\ UNCHANGED <<routeVars, tourVars, optVars, applyVars, parseVars,
                   sessionVars, mapVars>>

\* the arguments the service is called with
GeocodeOptions ==
    { << <<"\"limit\"", "8">> >>,
      << <<"\"limit\"", "5">>, <<"\"bounded\"", "true">> >>,
      << <<"\"bounded\"", "true">>, <<"\"limit\"", "5">> >> }
\* two points less than a millionth of a degree apart
ReversePoints ==
    { [lat |-> Dec(12, 9716000), lng |-> Dec(77, 5946000)],
      [lat |-> Dec(12, 9716004), lng |-> Dec(77, 5946000)] }
SuggestionTexts == { <<"m", "g">>, <<"m", "g", "r">>, <<"9", ",", "9">>, <<"5", "6", "0", "0", "0", "1">> }

GeoNext ==
    \/ /\ Len(calls) < MaxCalls
       /\ \E options \in GeocodeOptions : GeocodeCall(<<"m", "g", "r">>, options)
    \/ /\ Len(calls) < MaxCalls
       /\ \E point \in ReversePoints : ReverseGeocodeCall(point.lat, point.lng)
    \/ /\ Len(calls) < MaxCalls
       /\ \E text \in SuggestionTexts : GetSuggestionsCall(text)
    \/ \E i \in 1..Len(calls) :
          /\ calls[i].pc = "fetching" /\ calls[i].op = "geocode"
          /\ \E response \in GeocodeResponses : GeocodeSettle(i, response)
    \/ \E i \in 1..Len(calls) :
          /\ calls[i].pc = "fetching" /\ calls[i].op = "reverseGeocode"
          /\ \E response \in ReverseResponses : ReverseGeocodeSettle(i, response)

-----------------------------------------------------------------------------
(* MapContainer: add-node mode and map clicks *)

\* line 756: the button toggles add-node mode
ToggleAddNode ==
    /\ isAddingNode \/ armings < MaxArmings
    /\ isAddingNode' = ~isAddingNode
    /\ armings' = IF isAddingNode THEN armings ELSE armings + 1
    /\ UNCHANGED addedNodes
    /\ UNCHANGED <<routeVars, tourVars, optVars, applyVars, geoVars, parseVars,
                   sessionVars>>

\* lines 702-715: the node handed to onAddNode for a click at (lat, lng) whose
\* reverse lookup gave reverseResult.  The name is the part of the address
\* before the first comma, or of the coordinates text when there is no
\* address; newNodeType keeps its initial value 'source'
AddedNode(lat, lng, reverseResult) ==
    [name |-> IF reverseResult # Null
              THEN [text |-> IF reverseResult.display_name = "MG Road, Bengaluru"
                             THEN "MG Road"
                             ELSE reverseResult.display_name]
              ELSE [text |-> ToFixed6(lat)],
     type |-> "source",
     x |-> lng,
     y |-> lat,
     capacity |-> 1000]

\* lines 697-701: the map is clicked at (lat, lng).  With add-node mode off
\* the handler does nothing; with a cached address it runs to its end; else
\* it waits for the reverse lookup
MapClick(lat, lng) ==
    /\ Len(calls) < MaxCalls
    /\ IF ~isAddingNode
       THEN /\ calls' = Append(calls,
                   [entry |-> "handleMapClick", input |-> <<>>, op |-> "none",
                    args |-> [lat |-> lat, lng |-> lng], key |-> <<>>,
                    pc |-> "done", invoked |-> FALSE, response |-> NoResponse,
                    status |-> "returned", result |-> <<>>])
            /\ UNCHANGED <<isAddingNode, addedNodes>>
       ELSE LET call == ReverseBegin("handleMapClick", <<>>, lat, lng)
            IN  /\ calls' = Append(calls, call)
                /\ IF call.pc = "done"
                   THEN /\ addedNodes' = Append(addedNodes,
                                                AddedNode(lat, lng, call.result))
                        /\ isAddingNode' = FALSE
                   ELSE UNCHANGED <<isAddingNode, addedNodes>>
    /\ UNCHANGED <<cache, reverseCache, armings>>
    /\ UNCHANGED <<routeVars, tourVars, optVars, applyVars, parseVars, sessionVars>>

\* lines 483-499 and 702-728: the reverse lookup of a click is answered; the
\* handler adds the node and leaves add-node mode
MapClickSettle(i, response) ==
    /\ calls[i].pc = "fetching"
    /\ calls[i].entry = "handleMapClick"
    /\ LET try == ReverseTry(response)
           outcome == IF try.threw THEN ReverseCatch
                      ELSE [status |-> "returned", value |-> try.value]
       IN  /\ reverseCache' = IF try.threw THEN reverseCache
                              ELSE CachePut(reverseCache, calls[i].key, try.value)
           /\ calls' = [calls EXCEPT ![i] = Settled(@, response, outcome)]
           /\ addedNodes' = Append(addedNodes,
                                   AddedNode(calls[i].args.lat, calls[i].args.lng,
                                             outcome.value))
    /\ isAddingNode' = FALSE
    /\ UNCHANGED <<cache, armings>>
    /\ UNCHANGED <<routeVars, tourVars, optVars, applyVars, parseVars, sessionVars>>

MapNext ==
    \/ ToggleAddNode
    \/ /\ Len(calls) < MaxCalls
       /\ \E point \in ReversePoints : MapClick(point.lat, point.lng)
    \/ \E i \in 1..Len(calls) :
          /\ calls[i].pc = "fetching" /\ calls[i].entry = "handleMapClick"
          /\ \E response \in ReverseResponses : MapClickSettle(i, response)

-----------------------------------------------------------------------------
(* Specifications *)

\* no call in flight, the optimizer component not mounted
InitIdle ==
    /\ rPc = "idle"
    /\ rArgs = NoArgs
    /\ rResponse = NoResponse
    /\ rOutcome = NoOutcome
    /\ tPc = "idle"
    /\ tPoints = <<>>
    /\ tMode = "none"
    /\ unvisited = <<>>
    /\ current = 0
    /\ order = <<>>
    /\ totalDistance = 0
    /\ totalDuration = 0
    /\ tIter = 0
    /\ tResult = NoResult
    /\ tPrev = NoResult
    /\ nodes = <<>>
    /\ edges = <<>>
    /\ optimizationMode = "balanced"
    /\ isOptimizing = FALSE
    /\ optimization = Null
    /\ oPc = "idle"
    /\ edgeIndex = 0
    /\ pending = {}
    /\ routeOptions = NoOptions
    /\ bestOption = Null
    /\ emitted = FALSE
    /\ recommendations = <<>>
    /\ totalCostSavings = 0
    /\ totalTimeSavings = 0
    /\ totalDistanceSavings = 0
    /\ emittedFor = <<>>
    /\ optimizedEdges = <<>>
    /\ recIndex = 0
    /\ applied = <<>>
    /\ cache = NoEntries
    /\ reverseCache = NoEntries
    /\ calls = <<>>
    /\ input = <<>>
    /\ parsed = NotParsed
    /\ provider = <<>>
    /\ generation = 0
    /\ isAddingNode = FALSE
    /\ addedNodes = <<>>
    /\ armings = 0

\* parseInput is about to be called with a text
InitParse ==
    /\ rPc = "idle"
    /\ rArgs = NoArgs
    /\ rResponse = NoResponse
    /\ rOutcome = NoOutcome
    /\ tPc = "idle"
    /\ tPoints = <<>>
    /\ tMode = "none"
    /\ unvisited = <<>>
    /\ current = 0
    /\ order = <<>>
    /\ totalDistance = 0
    /\ totalDuration = 0
    /\ tIter = 0
    /\ tResult = NoResult
    /\ tPrev = NoResult
    /\ nodes = <<>>
    /\ edges = <<>>
    /\ optimizationMode = "balanced"
    /\ isOptimizing = FALSE
    /\ optimization = Null
    /\ oPc = "idle"
    /\ edgeIndex = 0
    /\ pending = {}
    /\ routeOptions = NoOptions
    /\ bestOption = Null
    /\ emitted = FALSE
    /\ recommendations = <<>>
    /\ totalCostSavings = 0
    /\ totalTimeSavings = 0
    /\ totalDistanceSavings = 0
    /\ emittedFor = <<>>
    /\ optimizedEdges = <<>>
    /\ recIndex = 0
    /\ applied = <<>>
    /\ cache = NoEntries
    /\ reverseCache = NoEntries
    /\ calls = <<>>
    /\ input \in Texts
    /\ parsed = NotParsed
    /\ provider = <<>>
    /\ generation = 0
    /\ isAddingNode = FALSE
    /\ addedNodes = <<>>
    /\ armings = 0

\* the optimizer component mounted on a network of at most MaxEdges edges
InitOpt ==
    /\ rPc = "idle"
    /\ rArgs = NoArgs
    /\ rResponse = NoResponse
    /\ rOutcome = NoOutcome
    /\ tPc = "idle"
    /\ tPoints = <<>>
    /\ tMode = "none"
    /\ unvisited = <<>>
    /\ current = 0
    /\ order = <<>>
    /\ totalDistance = 0
    /\ totalDuration = 0
    /\ tIter = 0
    /\ tResult = NoResult
    /\ tPrev = NoResult
    /\ nodes = NetworkNodes
    /\ edges \in EdgeLists
    /\ optimizationMode = "balanced"
    /\ isOptimizing = FALSE
    /\ optimization = Null
    /\ oPc = "idle"
    /\ edgeIndex = 0
    /\ pending = {}
    /\ routeOptions = NoOptions
    /\ bestOption = Null
    /\ emitted = FALSE
    /\ recommendations = <<>>
    /\ totalCostSavings = 0
    /\ totalTimeSavings = 0
    /\ totalDistanceSavings = 0
    /\ emittedFor = <<>>
    /\ optimizedEdges = <<>>
    /\ recIndex = 0
    /\ applied = <<>>
    /\ cache = NoEntries
    /\ reverseCache = NoEntries
    /\ calls = <<>>
    /\ input = <<>>
    /\ parsed = NotParsed
    /\ provider = <<>>
    /\ generation = 0
    /\ isAddingNode = FALSE
    /\ addedNodes = <<>>
    /\ armings = 0

\* the optimizer mounted on a network, an objective chosen, and a routing
\* backend that answers the same request the same way
InitSession ==
    /\ rPc = "idle"
    /\ rArgs = NoArgs
    /\ rResponse = NoResponse
    /\ rOutcome = NoOutcome
    /\ tPc = "idle"
    /\ tPoints = <<>>
    /\ tMode = "none"
    /\ unvisited = <<>>
    /\ current = 0
    /\ order = <<>>
    /\ totalDistance = 0
    /\ totalDuration = 0
    /\ tIter = 0
    /\ tResult = NoResult
    /\ tPrev = NoResult
    /\ nodes = NetworkNodes
    /\ edges \in EdgeLists
    /\ optimizationMode \in Objective
    /\ isOptimizing = FALSE
    /\ optimization = Null
    /\ oPc = "idle"
    /\ edgeIndex = 0
    /\ pending = {}
    /\ routeOptions = NoOptions
    /\ bestOption = Null
    /\ emitted = FALSE
    /\ recommendations = <<>>
    /\ totalCostSavings = 0
    /\ totalTimeSavings = 0
    /\ totalDistanceSavings = 0
    /\ emittedFor = <<>>
    /\ optimizedEdges = <<>>
    /\ recIndex = 0
    /\ applied = <<>>
    /\ cache = NoEntries
    /\ reverseCache = NoEntries
    /\ calls = <<>>
    /\ input = <<>>
    /\ parsed = NotParsed
    /\ provider \in Providers
    /\ generation = 0
    /\ isAddingNode = FALSE
    /\ addedNodes = <<>>
    /\ armings = 0

\* calculateRoute calls against a backend that answers in every possible way
SpecRoute == InitIdle /\ [][RouteNext]_vars

\* optimizeRoute calls on every list of at most MaxPoints grid points
SpecTour == InitIdle /\ [][TourNext]_vars

\* one call of optimizeRoute, running on once it has started: the body of
\* optimizeRoute has no await in it, so nothing holds a started call up.  The
\* transport mode takes no part in the control of the loop; the calls are
\* made with the first registered mode
SpecTourRuns ==
    /\ InitIdle
    /\ [][\/ /\ tPc = "idle"
             /\ \E points \in PointLists : OptimizeRouteCall(points, ModeOrder[1])
          \/ OptimizeRouteDegenerate
          \/ OptimizeRouteStart
          \/ OptimizeRouteStep
          \/ OptimizeRouteFinish]_vars
    /\ WF_vars(\/ OptimizeRouteDegenerate
               \/ OptimizeRouteStart
               \/ OptimizeRouteStep
               \/ OptimizeRouteFinish)

\* optimizeTransportModes runs on every network of at most MaxEdges edges
SpecOpt == InitOpt /\ [][OptNext]_vars

\* parseInput is called with every text
SpecParse == InitParse /\ [][ParseInputCall]_vars

\* at most MaxCalls calls of geocode, reverseGeocode and getSuggestions, in
\* flight together or one after the other, against a backend that answers
\* each request in every possible way
SpecGeo == InitIdle /\ [][GeoNext]_vars

\* optimise-apply cycles with one objective against a backend that answers
\* the same request the same way
SpecSession == InitSession /\ [][SessionNext]_vars

\* the user arms add-node mode, cancels it and clicks the map, in any order,
\* while the reverse lookups of earlier clicks are answered in any order
SpecMap == InitIdle /\ [][MapNext]_vars

-----------------------------------------------------------------------------
(* Properties of calculateRoute *)

CallSettled == rPc = "settled"

\* a RouteResponse: all five fields, numbers and sequences
IsRouteResponse(v) ==
    /\ DOMAIN v = {"distance", "duration", "geometry", "segments", "cost"}
    /\ v.distance \in Nat
    /\ v.duration \in Nat
    /\ v.cost \in Nat
    /\ Len(v.geometry) >= 0
    /\ Len(v.segments) >= 0

\* the backend failed: network error, non-success status, or no candidate route
BackendFailed(response) ==
    \/ response.kind \in {"network_error", "http_error"}
    \/ /\ response.kind = "ok"
       /\ (~Has(response, "routes") \/ Len(response.routes) = 0)

\* the backend succeeded with a candidate of the documented shape first
BackendSucceeded(response) ==
    /\ response.kind = "ok"
    /\ Has(response, "routes")
    /\ Len(response.routes) >= 1
    /\ IsWellFormed(response.routes[1])

\* c is n / d rounded to the nearest integer, halves upwards
IsRounded(c, n, d) == 2 * d * c - d <= 2 * n /\ 2 * n < 2 * d * c + d

\* C1: calculateRoute never raises to its caller: for every start, end and
\* registered mode and every backend outcome (network error, non-success
\* status, a body that cannot be read, no routes, a malformed candidate, or
\* success) the call completes with a RouteResponse.
C1_NeverRaises ==
    CallSettled => rOutcome.status = "returned" /\ IsRouteResponse(rOutcome.value)

\* a call that ended although the backend's first candidate was malformed
C1_Witness ==
    /\ CallSettled
    /\ rResponse.kind = "ok"
    /\ Has(rResponse, "routes")
    /\ Len(rResponse.routes) >= 1
    /\ ~IsWellFormed(rResponse.routes[1])
    /\ rOutcome.status = "returned"

\* C2: whenever the backend fails, calculateRoute returns the fallback route:
\* the great-circle distance, duration = (distanceKm / maxSpeed) * 3600,
\* cost = round(distanceKm * costPerKm) without surcharge, geometry exactly
\* [start, end], and exactly one segment.
C2_FallbackOnFailure ==
    CallSettled /\ BackendFailed(rResponse) =>
        LET v == rOutcome.value
            cfg == TRANSPORT_MODES[rArgs.transportMode]
        IN  /\ rOutcome.status = "returned"
            /\ v.distance = calculateStraightLineDistance(rArgs.start, rArgs.end)
            /\ v.duration * 1000 * cfg.maxSpeed = v.distance * 3600 * TicksPerSecond
            /\ IsRounded(v.cost, v.distance * cfg.costPerKm, 1000)
            /\ v.geometry = <<rArgs.start, rArgs.end>>
            /\ Len(v.segments) = 1

\* a fallback between two distinct points after an answer without candidates
C2_Witness ==
    /\ CallSettled
    /\ rResponse.kind = "ok"
    /\ Has(rResponse, "routes")
    /\ Len(rResponse.routes) = 0
    /\ rArgs.start # rArgs.end
    /\ rOutcome.value.cost > 0

\* C3: when the backend succeeds with at least one candidate route, the first
\* candidate alone is used: distance and duration are its summary values and
\* cost = round(distanceKm * costPerKm + durationHours * 50).
C3_FirstCandidateUsed ==
    CallSettled /\ BackendSucceeded(rResponse) =>
        LET v == rOutcome.value
            first == rResponse.routes[1]
            cfg == TRANSPORT_MODES[rArgs.transportMode]
        IN  /\ rOutcome.status = "returned"
            /\ v.distance = first.summary.distance
            /\ v.duration = first.summary.duration
            /\ IsRounded(v.cost,
                         v.distance * cfg.costPerKm * TicksPerCostUnit + v.duration * 1000,
                         1000 * TicksPerCostUnit)

\* a success with two different candidates
C3_Witness ==
    /\ CallSettled
    /\ BackendSucceeded(rResponse)
    /\ Len(rResponse.routes) = 2
    /\ IsWellFormed(rResponse.routes[2])
    /\ rResponse.routes[1].summary.distance > rResponse.routes[2].summary.distance
    /\ rResponse.routes[1].summary.duration > rResponse.routes[2].summary.duration

\* C4: for two distinct points calculateRoute returns distance > 0,
\* duration > 0 and cost >= 0, and for twice the same point distance = 0.
C4_PositiveMetrics ==
    CallSettled /\ rOutcome.status = "returned" =>
        LET v == rOutcome.value
        IN  /\ rArgs.start # rArgs.end => v.distance > 0 /\ v.duration > 0 /\ v.cost >= 0
            /\ rArgs.start = rArgs.end => v.distance = 0

-----------------------------------------------------------------------------
(* Properties of optimizeRoute *)

TourDone == tPc = "done"

\* C5: for every list of n points (n >= 0, repeated points included) the
\* returned order is a permutation of 0..n-1: every index exactly once.
C5_OrderIsPermutation ==
    TourDone =>
        LET n == Len(tPoints)
            o == tResult.optimizedOrder
        IN  /\ Len(o) = n
            /\ \A i \in 0..(n - 1) : Cardinality({k \in 1..Len(o) : o[k] = i}) = 1

\* a finished tour over more than two points, one of them repeated
C5_Witness ==
    /\ TourDone
    /\ Len(tPoints) > 2
    /\ \E i, j \in 1..Len(tPoints) : i # j /\ tPoints[i] = tPoints[j]
    /\ \E i, j \in 1..Len(tPoints) : tPoints[i] # tPoints[j]

\* C6: optimizeRoute is deterministic, two calls with the same points and mode
\* return the identical order and totals, and the order starts with index 0
\* when the list is not empty.
C6_Deterministic ==
    TourDone =>
        /\ tPrev # NoResult => tResult = tPrev
        /\ Len(tPoints) > 0 => tResult.optimizedOrder[1] = 0

\* a second call on more than two points has finished, with a positive total
C6_Witness ==
    /\ TourDone
    /\ tPrev # NoResult
    /\ Len(tPoints) > 2
    /\ tResult.totalDistance > 0

\* C7: with at most 2 points optimizeRoute returns the identity order and
\* totalDistance, totalDuration and totalCost all zero, whatever the points.
C7_DegenerateCase ==
    TourDone /\ Len(tPoints) <= 2 =>
        /\ Len(tResult.optimizedOrder) = Len(tPoints)
        /\ \A k \in 1..Len(tPoints) : tResult.optimizedOrder[k] = k - 1
        /\ tResult.totalDistance = 0
        /\ tResult.totalDuration = 0
        /\ tResult.totalCost = 0

\* a finished call on two distinct points
C7_Witness ==
    /\ TourDone
    /\ Len(tPoints) = 2
    /\ tPoints[1] # tPoints[2]

-----------------------------------------------------------------------------
(* Properties of optimizeTransportModes *)

EdgeScored == oPc = "scored" /\ bestOption # Null

\* the options of the current edge, in registry order
ScoredOptions == ValidOptions(routeOptions)

\* C8: no recommendation is emitted unless the selected mode differs from the
\* edge's current mode (driving-hgv when the edge has none) and at least one
\* of cost, time, distance of the selected option is strictly lower than the
\* edge's current value.
C8_RecommendationImproves ==
    oPc = "scored" /\ emitted =>
        LET edge == edges[edgeIndex]
            rec == recommendations[Len(recommendations)]
            now == IF "transportMode" \in DOMAIN edge THEN edge.transportMode
                   ELSE "driving-hgv"
        IN  /\ rec.from = edge.from /\ rec.to = edge.to
            /\ rec.recommendedMode = bestOption.mode
            /\ rec.recommendedMode # now
            /\ \/ bestOption.cost < edge.cost
               \/ bestOption.time < edge.travelTimeHr
               \/ bestOption.distance < edge.distanceKm

\* a recommendation was emitted for an edge with a mode of its own
C8_Witness ==
    /\ oPc = "scored"
    /\ emitted
    /\ "transportMode" \in DOMAIN edges[edgeIndex]

\* the value an objective compares
Metric(objective, o) ==
    CASE objective = "cost"     -> o.cost
      [] objective = "time"     -> o.time
      [] objective = "distance" -> o.distance

\* C9: for the objectives cost, time and distance the selected option has the
\* minimum cost, duration or distance among the edge's evaluated options, and
\* among several options at the minimum the earliest in registry order wins.
C9_MinimumSelected ==
    EdgeScored /\ optimizationMode \in {"cost", "time", "distance"} =>
        \E k \in 1..Len(ScoredOptions) :
            /\ bestOption = ScoredOptions[k]
            /\ \A j \in 1..Len(ScoredOptions) :
                   Metric(optimizationMode, ScoredOptions[k])
                       <= Metric(optimizationMode, ScoredOptions[j])
            /\ \A j \in 1..(k - 1) :
                   Metric(optimizationMode, ScoredOptions[k])
                       < Metric(optimizationMode, ScoredOptions[j])

\* a selection among options of which two share the minimum cost and an
\* earlier one costs more
C9_Witness ==
    /\ EdgeScored
    /\ optimizationMode = "cost"
    /\ \E k, j \in 1..Len(ScoredOptions) :
          /\ k < j
          /\ bestOption = ScoredOptions[k]
          /\ ScoredOptions[j].cost = bestOption.cost
          /\ ScoredOptions[1].cost > bestOption.cost

\* the worked example: {cost 100, time 1, distance 10} against
\* {cost 200, time 2, distance 20}
ExampleOptions ==
    << [mode |-> "driving-hgv", cost |-> 100, time |-> 1, distance |-> 10],
       [mode |-> "driving-car", cost |-> 200, time |-> 2, distance |-> 20] >>

\* C10: for the balanced objective the selected option minimises
\* 0.4*(cost/maxCost) + 0.3*(time/maxTime) + 0.3*(distance/maxDistance), the
\* maxima taken over the edge's own options, for every edge with at least one
\* evaluated option; in the worked example the first option is selected.
C10_BalancedMinimises ==
    /\ SelectBest("balanced", ExampleOptions) = ExampleOptions[1]
    /\ EdgeScored /\ optimizationMode = "balanced" =>
          /\ ScoreIsNumber(ScoredOptions)
          /\ \A j \in 1..Len(ScoredOptions) :
                 ScaledScore(bestOption, ScoredOptions)
                     <= ScaledScore(ScoredOptions[j], ScoredOptions)

\* the recommendation pushed by the current iteration
LastRecommendation == recommendations[Len(recommendations)]

\* C11: the savingsScore of every emitted recommendation equals the cost
\* delta under the cost objective, the time delta under time, the distance
\* delta under distance, and costDelta + timeDelta*50 + distanceDelta*10 under
\* balanced, each delta being the edge's current value minus the selected
\* option's value.  (Time deltas are in ticks and distance deltas in metres;
\* the balanced score is in 1/TicksPerCostUnit currency units, so an hour's
\* delta weighs 50 and a kilometre's delta weighs 10 currency units.)
C11_SavingsScorePerObjective ==
    oPc = "scored" /\ emitted =>
        LET edge == edges[edgeIndex]
            costDelta == edge.cost - bestOption.cost
            timeDelta == edge.travelTimeHr - bestOption.time
            distanceDelta == edge.distanceKm - bestOption.distance
            score == LastRecommendation.savings
        IN  /\ optimizationMode = "cost" => score = costDelta
            /\ optimizationMode = "time" => score = timeDelta
            /\ optimizationMode = "distance" => score = distanceDelta
            /\ optimizationMode = "balanced" =>
                   \* timeDelta * 50 / (3600 * TicksPerSecond) currency units
                   \* are timeDelta score units; both sides are times 100
                   score * 100 =
                       costDelta * TicksPerCostUnit * 100
                         + timeDelta * ((50 * TicksPerCostUnit) \div (3600 * TicksPerSecond)) * 100
                         + distanceDelta * ((10 * TicksPerCostUnit * 100) \div 1000)

\* a recommendation under the time objective whose three deltas all differ
\* from zero and from each other
C11_Witness ==
    /\ oPc = "scored"
    /\ emitted
    /\ optimizationMode = "time"
    /\ LET edge == edges[edgeIndex]
           costDelta == edge.cost - bestOption.cost
           timeDelta == edge.travelTimeHr - bestOption.time
           distanceDelta == edge.distanceKm - bestOption.distance
       IN  /\ costDelta # 0 /\ timeDelta # 0 /\ distanceDelta # 0
           /\ costDelta # timeDelta /\ distanceDelta # timeDelta

RECURSIVE PlainSum(_, _, _)
\* es[1][field] + ... + es[n][field]
PlainSum(es, field, n) ==
    IF n = 0 THEN 0 ELSE PlainSum(es, field, n - 1) + es[n][field]

\* what one step of a run does to the aggregates
AggregationStep ==
    \* the run starts: the aggregates are zero and nothing is emitted
    /\ oPc = "idle" /\ oPc' = "edge" =>
           /\ recommendations' = <<>>
           /\ totalCostSavings' = 0
           /\ totalTimeSavings' = 0
           /\ totalDistanceSavings' = 0
    \* an edge is scored: its deltas are added exactly when it is emitted
    /\ oPc = "evaluating" /\ oPc' = "scored" =>
           IF emitted'
           THEN LET edge == edges[edgeIndex]
                IN  /\ Len(recommendations') = Len(recommendations) + 1
                    /\ totalCostSavings' =
                           totalCostSavings + (edge.cost - bestOption'.cost)
                    /\ totalTimeSavings' =
                           totalTimeSavings + (edge.travelTimeHr - bestOption'.time)
                    /\ totalDistanceSavings' =
                           totalDistanceSavings + (edge.distanceKm - bestOption'.distance)
           ELSE UNCHANGED <<recommendations, totalCostSavings, totalTimeSavings,
                            totalDistanceSavings>>
    \* every other step of the loop leaves them alone
    /\ oPc' # "idle" /\ ~(oPc = "idle" /\ oPc' = "edge")
          /\ ~(oPc = "evaluating" /\ oPc' = "scored") =>
           UNCHANGED <<recommendations, totalCostSavings, totalTimeSavings,
                       totalDistanceSavings>>
    \* the run ends: the aggregates are published as they stand, next to the
    \* plain sums over all edges
    /\ oPc = "edge" /\ oPc' = "idle" =>
           LET n == Len(edges)
               now == calculateCurrentMetrics(edges)
           IN  /\ optimization'.recommendations = recommendations
               /\ optimization'.savings.cost = totalCostSavings
               /\ optimization'.savings.time = totalTimeSavings
               /\ optimization'.savings.distance = totalDistanceSavings
               /\ now.totalCost = PlainSum(edges, "cost", n)
               /\ now.totalTime = PlainSum(edges, "travelTimeHr", n)
               /\ now.totalDistance = PlainSum(edges, "distanceKm", n)
               /\ optimization'.totalCost = now.totalCost - totalCostSavings
               /\ optimization'.totalTime = now.totalTime - totalTimeSavings
               /\ optimization'.totalDistance =
                      now.totalDistance - totalDistanceSavings

\* C12: after an optimization run the aggregate cost, time and distance
\* savings each equal the sum of the corresponding deltas over exactly the
\* emitted recommendations (they start at zero, grow by an edge's deltas
\* exactly when that edge's recommendation is emitted, and are published
\* unchanged), and the current-network totals equal the plain sums of every
\* edge's existing cost, travel time and distance.
C12_AggregatesAreSums == [][AggregationStep]_vars

\* a finished run over two edges that emitted one recommendation for each
C12_Witness ==
    /\ optimization # Null
    /\ Len(edges) = 2
    /\ Len(optimization.recommendations) = 2
    /\ edges[1] # edges[2]
    /\ optimization.savings.cost > 0
    /\ optimization.savings.time # 0

\* the names that match a node
NodeNames == {nodes[i].name : i \in 1..Len(nodes)}

\* an edge whose from-name or to-name matches no node
MissingEndpoint(edge) == edge.from \notin NodeNames \/ edge.to \notin NodeNames

\* what one step of a run does with the edge the loop stands at
SkipStep ==
    \* evaluations are issued, and results scored, only for edges with both
    \* endpoints
    /\ oPc' \in {"evaluating", "scored"} => ~MissingEndpoint(edges'[edgeIndex'])
    \* the loop leaves an edge for the next one: without a trace when an
    \* endpoint is missing, after scoring it otherwise
    /\ edgeIndex \in 1..Len(edges) /\ edgeIndex' # edgeIndex =>
           /\ edgeIndex' = edgeIndex + 1
           /\ IF MissingEndpoint(edges[edgeIndex])
              THEN /\ oPc = "edge" /\ oPc' = "edge"
                   /\ UNCHANGED <<pending, routeOptions, recommendations,
                                   totalCostSavings, totalTimeSavings,
                                   totalDistanceSavings>>
              ELSE oPc = "scored"
    \* the run ends only after the loop has passed every edge
    /\ isOptimizing /\ ~isOptimizing' => edgeIndex > Len(edges)
    \* no recommendation is for an edge with a missing endpoint
    /\ \A k \in 1..Len(recommendations') :
           /\ recommendations'[k].from \in NodeNames
           /\ recommendations'[k].to \in NodeNames

\* C13: an edge whose from-name or to-name matches no node is skipped by
\* optimizeTransportModes: no route evaluation is issued and no recommendation
\* is emitted for it, and every other edge is still processed.
C13_MissingEndpointSkipped == [][SkipStep]_vars

\* a finished run that skipped its first edge and emitted a recommendation
\* for its second
C13_Witness ==
    /\ optimization # Null
    /\ Len(edges) = 2
    /\ MissingEndpoint(edges[1])
    /\ ~MissingEndpoint(edges[2])
    /\ Len(optimization.recommendations) = 1
    /\ optimization.recommendations[1].from = edges[2].from
    /\ optimization.recommendations[1].to = edges[2].to

-----------------------------------------------------------------------------
(* Properties of applyOptimization *)

\* the step on which applyOptimization hands its list over
ApplyReturns == oPc = "applying" /\ oPc' = "idle"

\* the edge at position i had a recommendation emitted for it
HasRecommendation(i) == \E k \in 1..Len(emittedFor) : emittedFor[k] = i

\* C14: applyOptimization leaves every edge that has no recommendation
\* unchanged: in the returned list such an edge has the same mode, cost,
\* travel time, distance, geometry and instructions as in the input, and the
\* list keeps its length and order.
C14_UnrecommendedEdgesUntouched ==
    [][ApplyReturns =>
           /\ Len(applied') = Len(edges)
           /\ \A i \in 1..Len(edges) :
                  /\ applied'[i].from = edges[i].from
                  /\ applied'[i].to = edges[i].to
                  /\ ~HasRecommendation(i) => applied'[i] = edges[i]]_vars

\* the edge e carries the values of a route computed for it at the mode
RouteTakenOver(e, mode) ==
    /\ Has(e, "transportMode") /\ e.transportMode = mode
    /\ Has(e, "routeGeometry") /\ Has(e, "instructions")
    /\ LET fromNode == FindNode(nodes, e.from)
           toNode == FindNode(nodes, e.to)
       IN  \E response \in EvaluationResponses :
               LET newRoute == calculateRoute([lat |-> fromNode.y, lng |-> fromNode.x],
                                              [lat |-> toNode.y, lng |-> toNode.x],
                                              mode, response).value
               IN  /\ e.cost = newRoute.cost
                   \* within half a hundredth of an hour, of a kilometre
                   /\ 2 * Abs(e.travelTimeHr - newRoute.duration) <= 36 * TicksPerSecond
                   /\ 2 * Abs(e.distanceKm - newRoute.distance) <= 10
                   /\ e.routeGeometry = newRoute.geometry
                   /\ e.instructions = FlatInstructions(newRoute.segments)

\* C15: for each recommendation passed to applyOptimization, the edge for
\* which that recommendation was emitted ends with transportMode equal to the
\* recommended mode and with cost, travel time, distance, geometry and
\* instructions taken from the route computed at that mode.
C15_RecommendedEdgesReplaced ==
    [][ApplyReturns =>
           \A k \in 1..Len(optimization.recommendations) :
               RouteTakenOver(applied'[emittedFor[k]],
                              optimization.recommendations[k].recommendedMode)]_vars

-----------------------------------------------------------------------------
(* Properties of parseInput *)

\* the text without the whitespace around it
Trimmed(s) ==
    LET inked == {k \in 1..Len(s) : s[k] # " "}
    IN  IF inked = {} THEN <<>>
        ELSE SubSeq(s, CHOOSE k \in inked : \A l \in inked : k <= l,
                       CHOOSE k \in inked : \A l \in inked : k >= l)

\* a number as a coordinate is written: digits with at most one decimal point
\* after the first digit, and a minus sign in front at most
NumberShape(s) ==
    /\ s # <<>>
    /\ \A k \in 1..Len(s) : IsDigit(s[k]) \/ s[k] = "." \/ (s[k] = "-" /\ k = 1)
    /\ Cardinality({k \in 1..Len(s) : s[k] = "."}) <= 1
    /\ \E k \in 1..Len(s) : IsDigit(s[k]) /\ \A l \in 1..(k - 1) : s[l] = "-"

\* t is two numbers separated by commas and whitespace: the numbers
NumberPairs(t) ==
    {ab \in (1..Len(t)) \X (1..Len(t)) :
        /\ ab[1] + 1 < ab[2]
        /\ NumberShape(SubSeq(t, 1, ab[1]))
        /\ NumberShape(SubSeq(t, ab[2], Len(t)))
        /\ \A k \in (ab[1] + 1)..(ab[2] - 1) : t[k] \in {",", " "}}

\* |x| <= limit, for a whole limit
WithinLimit(x, limit) == x.whole < limit \/ (x.whole = limit /\ x.frac7 = 0)

\* t is a pair of numbers with lat in [-90, 90] and lng in [-180, 180]
IsCoordinatePair(t) ==
    \E ab \in NumberPairs(t) :
        /\ WithinLimit(ParseFloat(SubSeq(t, 1, ab[1])), 90)
        /\ WithinLimit(ParseFloat(SubSeq(t, ab[2], Len(t))), 180)

IsSixDigits(t) == Len(t) = 6 /\ \A k \in 1..6 : IsDigit(t[k])

\* C19: parseInput classifies every text into exactly one of coordinates,
\* postal code or address: coordinates when the trimmed text is two numbers
\* separated by comma/whitespace with lat in [-90,90] and lng in [-180,180];
\* postal code when it is exactly six digits; address in every other case,
\* including number pairs that are out of range.  It never fails.
C19_ParseInputClassifies ==
    parsed # NotParsed =>
        LET t == Trimmed(input)
        IN  /\ parsed.type \in {"coordinates", "pincode", "address"}
            /\ parsed.type = "coordinates" <=> IsCoordinatePair(t)
            /\ parsed.type = "pincode" <=> IsSixDigits(t)
            /\ parsed.type = "address" <=> ~IsCoordinatePair(t) /\ ~IsSixDigits(t)
            /\ parsed.type = "coordinates" =>
                   \E ab \in NumberPairs(t) :
                       /\ parsed.parsed.lat = ParseFloat(SubSeq(t, 1, ab[1]))
                       /\ parsed.parsed.lng = ParseFloat(SubSeq(t, ab[2], Len(t)))
            /\ parsed.type = "pincode" => parsed.parsed.pincode = t
            /\ parsed.type = "address" => parsed.parsed.address = t

\* a pair of numbers with its latitude out of range, with whitespace around
\* it, was classified as an address
C19_Witness ==
    /\ parsed # NotParsed
    /\ parsed.type = "address"
    /\ input # Trimmed(input)
    /\ NumberPairs(Trimmed(input)) # {}

-----------------------------------------------------------------------------
(* Properties of the geocoding service *)

\* the step on which a call starts, and the call it starts
CallStarts == Len(calls') = Len(calls) + 1
NewCall == calls'[Len(calls')]

IsGeocode(call) == call.op = "geocode"

\* the same properties with the same values, in whatever order
SameOptions(o1, o2) ==
    {o1[k] : k \in 1..Len(o1)} = {o2[k] : k \in 1..Len(o2)}

\* two geocode calls with the same query and the same options
SameRequest(c, d) ==
    /\ IsGeocode(c) /\ IsGeocode(d)
    /\ c.args.query = d.args.query
    /\ SameOptions(c.args.options, d.args.options)

\* the backend answered the call's request with a list
AnsweredWithList(call) ==
    call.pc = "done" /\ call.invoked /\ call.response.kind = "ok"
        /\ Has(call.response, "data")

BackendFailure(call) ==
    call.invoked /\ call.response.kind \in {"network_error", "http_error", "body_error"}

\* C17: geocode returns an empty list and reverseGeocode returns the absent
\* value (null) on every backend failure (network error, non-success status,
\* unparseable body); neither operation raises to its caller.
C17_FailureGivesEmpty ==
    \A i \in 1..Len(calls) :
        /\ calls[i].status # "raised"
        /\ calls[i].pc = "done" /\ BackendFailure(calls[i]) =>
              /\ calls[i].status = "returned"
              /\ calls[i].entry = "geocode" => calls[i].result = <<>>
              /\ calls[i].entry = "reverseGeocode" => calls[i].result = Null

\* a geocode call ended on an unparseable body and a reverseGeocode call on a
\* non-success status
C17_Witness ==
    \E i, j \in 1..Len(calls) :
        /\ calls[i].entry = "geocode" /\ calls[i].pc = "done"
        /\ calls[i].response.kind = "body_error"
        /\ calls[j].entry = "reverseGeocode" /\ calls[j].pc = "done"
        /\ calls[j].response.kind = "http_error"

\* a number in ten-millionths
TenMillionths(n) == (IF n.neg THEN -1 ELSE 1) * (n.whole * 10000000 + n.frac7)

\* 12.7342 <= lat <= 13.1394 and 77.4272 <= lng <= 77.7814
InRegion(r) ==
    /\ r.lat # NaN /\ r.lng # NaN
    /\ 127342000 <= TenMillionths(r.lat) /\ TenMillionths(r.lat) <= 131394000
    /\ 774272000 <= TenMillionths(r.lng) /\ TenMillionths(r.lng) <= 777814000

\* C18: every result returned by geocode, whether freshly fetched or served
\* from the cache, lies inside the configured bounding region
\* (12.7342 <= lat <= 13.1394 and 77.4272 <= lng <= 77.7814), whatever the
\* backend returned and whatever options were passed.
C18_ResultsInRegion ==
    /\ \A i \in 1..Len(calls) :
           IsGeocode(calls[i]) /\ calls[i].pc = "done" =>
               \A k \in 1..Len(calls[i].result) : InRegion(calls[i].result[k])
    /\ \A key \in DOMAIN cache :
           \A k \in 1..Len(cache[key]) : InRegion(cache[key][k])

\* the backend answered with places outside the region among others, the
\* call returned the places inside, and a later call got them from the cache
C18_Witness ==
    \E i, j \in 1..Len(calls) :
        /\ i < j
        /\ IsGeocode(calls[i]) /\ IsGeocode(calls[j])
        /\ AnsweredWithList(calls[i])
        /\ Len(calls[i].response.data) > Len(calls[i].result)
        /\ calls[i].result # <<>>
        /\ calls[j].pc = "done" /\ ~calls[j].invoked
        /\ calls[j].result = calls[i].result

\* C20: getSuggestions called with a text shorter than 3 characters returns
\* an empty list without invoking the geocoding backend and without changing
\* either cache.
C20_ShortTextNoLookup ==
    [][CallStarts /\ NewCall.entry = "getSuggestions" /\ Len(NewCall.input) < 3 =>
           /\ NewCall.pc = "done"
           /\ NewCall.status = "returned"
           /\ NewCall.result = <<>>
           /\ ~NewCall.invoked
           /\ cache' = cache
           /\ reverseCache' = reverseCache]_vars

\* getSuggestions returned on a text of two characters while the cache held
\* an entry
C20_Witness ==
    /\ \E i \in 1..Len(calls) :
          /\ calls[i].entry = "getSuggestions"
          /\ Len(calls[i].input) = 2
          /\ calls[i].pc = "done"
    /\ DOMAIN cache # {}

-----------------------------------------------------------------------------
(* Properties of the nearest-neighbour loop of optimizeRoute *)

\* the loop appends an index to the order
OrderGrows == tPc = "loop" /\ order' # order

\* metres from the current point to the point of index j
FromCurrent(j) ==
    calculateStraightLineDistance(PointAt(tPoints, current), PointAt(tPoints, j))

\* C21: with more than 2 points, each index optimizeRoute appends to the
\* order is an unvisited index at minimal distance from the current point,
\* and among several unvisited indices at that distance it is the one that
\* stands first in the unvisited list.
C21_NearestChosen ==
    [][OrderGrows =>
           LET chosen == order'[Len(order')]
               At1(j) == CHOOSE p \in 1..Len(unvisited) : unvisited[p] = j
           IN  /\ Len(tPoints) > 2
               /\ order' = Append(order, chosen)
               /\ \E p \in 1..Len(unvisited) : unvisited[p] = chosen
               /\ \A p \in 1..Len(unvisited) :
                      /\ FromCurrent(chosen) <= FromCurrent(unvisited[p])
                      /\ FromCurrent(chosen) = FromCurrent(unvisited[p])
                             => At1(chosen) <= p]_vars

\* the first iteration has run on three points of which the second and the
\* third are different points at the same positive distance from the first,
\* and the second was appended
C21_Witness ==
    /\ tPc = "loop"
    /\ Len(tPoints) = 3
    /\ Len(order) = 2
    /\ tPoints[2] # tPoints[3]
    /\ calculateStraightLineDistance(tPoints[1], tPoints[2])
           = calculateStraightLineDistance(tPoints[1], tPoints[3])
    /\ calculateStraightLineDistance(tPoints[1], tPoints[2]) > 0
    /\ order[2] = 1

\* metres of the leg from the k-th to the (k+1)-th point of an order
LegDistance(o, k) ==
    calculateStraightLineDistance(PointAt(tPoints, o[k]), PointAt(tPoints, o[k + 1]))

RECURSIVE LegTotals(_, _)
\* distance and duration of the first k legs of an order, leg by leg
LegTotals(o, k) ==
    IF k = 0 THEN [distance |-> 0, duration |-> 0]
    ELSE LET before == LegTotals(o, k - 1)
             leg == LegDistance(o, k)
         IN  [distance |-> before.distance + leg,
              \* (leg km / maxSpeed) x 3600 seconds, in ticks
              duration |-> before.duration
                  + (leg * 3600 * TicksPerSecond)
                        \div (1000 * TRANSPORT_MODES[tMode].maxSpeed)]

\* C22: for more than 2 points, totalDistance is the sum of the leg distances
\* between consecutive points of the returned order, totalDuration the sum
\* over the legs of (leg km / maxSpeed) x 3600, and totalCost is
\* round(total km x costPerKm), rounded once on the total.
C22_TotalsAreLegSums ==
    TourDone /\ Len(tPoints) > 2 =>
        LET o == tResult.optimizedOrder
            legs == LegTotals(o, Len(o) - 1)
        IN  /\ tResult.totalDistance = legs.distance
            /\ tResult.totalDuration = legs.duration
            /\ tResult.totalCost * 1000 - 500
                   <= legs.distance * TRANSPORT_MODES[tMode].costPerKm
            /\ legs.distance * TRANSPORT_MODES[tMode].costPerKm
                   < tResult.totalCost * 1000 + 500

\* a finished tour of three points with two legs of different lengths, whose
\* cost differs from what rounding each leg would give
C22_Witness ==
    /\ TourDone
    /\ Len(tPoints) = 3
    /\ LET o == tResult.optimizedOrder
       IN  /\ LegDistance(o, 1) > 0
           /\ LegDistance(o, 2) > LegDistance(o, 1)
           /\ tResult.totalCost
                  # RoundDiv(LegDistance(o, 1) * TRANSPORT_MODES[tMode].costPerKm, 1000)
                    + RoundDiv(LegDistance(o, 2) * TRANSPORT_MODES[tMode].costPerKm, 1000)

-----------------------------------------------------------------------------
(* Properties of the geocoding caches over several calls *)

\* every entry of a map is in the map after the step, with the same value
EntriesKept(map, after) ==
    \A key \in DOMAIN map : key \in DOMAIN after /\ after[key] = map[key]

\* C23: under any interleaving of geocode and reverseGeocode calls, calls for
\* the same key in flight at the same time and a backend that answers each
\* request differently included, a key once present in the forward or the
\* reverse cache is never removed and its stored value never changes.
C23_CacheWriteOnce ==
    [][EntriesKept(cache, cache') /\ EntriesKept(reverseCache, reverseCache')]_vars

-----------------------------------------------------------------------------
(* Properties of the fan-out and fan-in of optimizeTransportModes *)

\* the evaluations of the current edge are issued
FanOutStep == oPc = "edge" /\ oPc' = "evaluating"

\* an evaluation of the current edge settles
SettleStep == oPc = "evaluating" /\ routeOptions' # routeOptions

\* the best option of the current edge is selected, or a recommendation is
\* pushed
SelectStep ==
    \/ oPc = "evaluating" /\ oPc' = "scored"
    \/ bestOption' # bestOption /\ bestOption' # Null
    \/ Len(recommendations') > Len(recommendations)

\* C24: for each edge optimizeTransportModes processes, exactly one route
\* evaluation is issued per registered transport mode, and the best option is
\* selected, and a recommendation pushed, only after all evaluations of that
\* edge have settled.
C24_FanOutFanIn ==
    [][/\ FanOutStep =>
              /\ pending' = TransportMode
              /\ DOMAIN routeOptions' = {}
       /\ SettleStep =>
              \E mode \in pending :
                 /\ mode \notin DOMAIN routeOptions
                 /\ pending' = pending \ {mode}
                 /\ DOMAIN routeOptions' = DOMAIN routeOptions \cup {mode}
                 /\ \A m \in DOMAIN routeOptions : routeOptions'[m] = routeOptions[m]
                 /\ edgeIndex' = edgeIndex
       /\ SelectStep =>
              /\ oPc = "evaluating"
              /\ pending = {}
              /\ DOMAIN routeOptions = TransportMode
              /\ UNCHANGED <<edgeIndex, routeOptions>>]_vars

\* the second edge of a network has been scored with a recommendation, after
\* the evaluations of all registered modes
C24_Witness ==
    /\ oPc = "scored"
    /\ edgeIndex = 2
    /\ emitted
    /\ bestOption # Null
    /\ pending = {}
    /\ DOMAIN routeOptions = TransportMode

-----------------------------------------------------------------------------
(* Properties of the segments calculateRoute builds *)

\* C25: on the backend-success path of calculateRoute, the geometry of each
\* segment contains, for every instruction step of the segment, every route
\* geometry point from the step's start index to its end index inclusive.
C25_SegmentsSpanSteps ==
    CallSettled /\ BackendSucceeded(rResponse) =>
        LET first == rResponse.routes[1]
            v == rOutcome.value
        IN  /\ Len(v.segments) = Len(first.segments)
            /\ \A i \in 1..Len(first.segments) :
                   \A j \in 1..Len(first.segments[i].steps) :
                      LET wp == first.segments[i].steps[j].way_points
                      IN  \A idx \in wp[1]..wp[Len(wp)] :
                             \E k \in 1..Len(v.segments[i].geometry) :
                                v.segments[i].geometry[k] = v.geometry[idx + 1]

-----------------------------------------------------------------------------
(* Properties of the edges of the network *)

\* the ingestion rule for one edge
EdgeIsValid(e) == e.distanceKm > 0 /\ e.travelTimeHr > 0 /\ e.cost >= 0

-----------------------------------------------------------------------------
(* Properties of optimise-apply cycles *)

\* no two edges share a from/to pair
DistinctPairs(es) ==
    \A i, j \in 1..Len(es) :
       i # j => es[i].from # es[j].from \/ es[i].to # es[j].to

\* C27: optimise-apply-optimise reaches a fixpoint: with a route provider
\* that returns the same result for the same inputs, unchanged nodes, the same
\* objective and no two edges sharing a from/to pair, a run of
\* optimizeTransportModes on the edges applyOptimization returned emits no
\* recommendation.
C27_ApplyReachesFixpoint ==
    [][generation >= 1 /\ DistinctPairs(edges) /\ isOptimizing =>
           /\ recommendations' = <<>>
           /\ emitted' = FALSE
           /\ ~isOptimizing' => optimization'.recommendations = <<>>]_vars

\* a run on applied edges has ended; the first run had recommended another
\* mode for an edge and applyOptimization had rewritten that edge
C27_Witness ==
    /\ generation = 1
    /\ oPc = "idle"
    /\ optimization # Null
    /\ optimization.recommendations = <<>>
    /\ Len(edges) = 2
    /\ DistinctPairs(edges)
    /\ \E i \in 1..Len(edges) :
          /\ Has(edges[i], "routeGeometry")
          /\ edges[i].transportMode # "driving-hgv"

-----------------------------------------------------------------------------
(* Properties of failed lookups *)

\* the call's request was sent and the call ended in its catch block
LookupFailed(call) ==
    /\ call.pc = "done" /\ call.invoked
    /\ \/ call.response.kind # "ok"
       \/ ~Has(call.response, "data")
       \/ call.op = "reverseGeocode" /\ call.response.data = Null

\* the step on which the request of call i is answered
Answered(i) == calls[i].pc = "fetching" /\ calls'[i].pc = "done"

\* C28: a failed geocode or reverseGeocode call leaves both caches unchanged,
\* the failure result (empty list or null) is not stored, so that a later call
\* with the same key invokes the backend again; a successful call that yields
\* an empty filtered list is stored.
C28_FailureNotCached ==
    [][/\ \A i \in 1..Len(calls) :
             Answered(i) =>
                 IF LookupFailed(calls'[i])
                 THEN cache' = cache /\ reverseCache' = reverseCache
                 ELSE calls[i].op = "geocode" =>
                          /\ calls[i].key \in DOMAIN cache'
                          /\ cache'[calls[i].key] = calls'[i].result
       /\ CallStarts /\ NewCall.op # "none" =>
             \/ NewCall.invoked
             \/ \E i \in 1..Len(calls) :
                   /\ calls[i].op = NewCall.op /\ calls[i].key = NewCall.key
                   /\ calls[i].pc = "done" /\ ~LookupFailed(calls[i])]_vars

\* a geocode call failed, a second call with the same key invoked the backend
\* again, was answered with a list of which nothing is left after filtering,
\* and the empty list is in the cache
C28_Witness ==
    /\ Len(calls) = 2
    /\ calls[1].op = "geocode" /\ calls[2].op = "geocode"
    /\ calls[1].key = calls[2].key
    /\ LookupFailed(calls[1])
    /\ calls[2].invoked /\ calls[2].pc = "done"
    /\ ~LookupFailed(calls[2])
    /\ calls[2].result = <<>>
    /\ calls[2].key \in DOMAIN cache
    /\ cache[calls[2].key] = <<>>

-----------------------------------------------------------------------------
(* Termination of the nearest-neighbour loop *)

\* C29: the nearest-neighbour loop of optimizeRoute terminates for every
\* finite list of points: each iteration removes exactly one index from the
\* unvisited list, and for n > 2 points the loop ends after exactly n - 1
\* iterations.
C29_LoopTerminates ==
    /\ [][tPc = "loop" /\ tIter' # tIter =>
              /\ tIter' = tIter + 1
              /\ Len(unvisited') = Len(unvisited) - 1
              /\ \E p \in 1..Len(unvisited) :
                     unvisited' = SubSeq(unvisited, 1, p - 1)
                                     \o SubSeq(unvisited, p + 1, Len(unvisited))]_vars
    /\ [](tPc = "loop" => tIter + Len(unvisited) = Len(tPoints) - 1)
    /\ [](TourDone /\ Len(tPoints) > 2 => tIter = Len(tPoints) - 1)
    /\ (tPc = "called" ~> TourDone)

\* a call on three points has ended after two iterations
C29_Witness ==
    /\ TourDone
    /\ Len(tPoints) = 3
    /\ tIter = 2
    /\ Len(tResult.optimizedOrder) = 3

-----------------------------------------------------------------------------
(* Properties of the map container *)

\* C30: each arming of add-node mode leads to at most one onAddNode call,
\* for any sequence of map clicks, clicks that arrive while the reverse
\* lookup of an earlier click is pending included; a click while add-node
\* mode is off adds no node.
C30_OneNodePerArming ==
    /\ Len(addedNodes) <= armings
    /\ Len(addedNodes) <= Cardinality({k \in 1..Len(calls) :
                                          calls[k].entry = "handleMapClick"
                                          /\ calls[k].op # "none"})

====
